---- MODULE Spec2Model ----
(***************************************************************************)
(* A model of ci-monitor: the task scheduler (ci-monitor/src/main.rs), the *)
(* GitLab adapter (ci-monitor-gitlab/src/tasks/*.rs) and the object stores *)
(* (ci-monitor-persistence/src/objects/{vec,arc}.rs).                      *)
(*                                                                         *)
(* Indices are 0-based as in Rust; a Vec is a sequence, so the element at  *)
(* index i is vec[i + 1].  Option::None of an index or an id is NONE.      *)
(***************************************************************************)
EXTENDS Integers, Sequences, FiniteSets, TLC

VARIABLES
    queue,        \* the unbounded mpsc channel: messages sent and not yet received
    pc,           \* where handle_tasks is
    tokio_tasks,  \* handle_tasks' Vec of JoinHandles (worker ids)
    workers,      \* the spawned tokio tasks that have not been joined
    count,        \* handle_tasks' task counter
    storage,      \* GitlabForge::storage: the VecLookup behind the RwLock
    failures,     \* how many forge calls have failed so far
    explore,      \* how far this run is explored: the governor grants a permit
                  \* only while fewer than in_flight workers are unfinished and
                  \* fewer than count workers have been spawned
    arcs,         \* the Arcs that ArcLookup::store has allocated, by address
    stored,       \* the store calls made directly on a backend, each with the
                  \* index it returned
    call,         \* the function called directly, with its arguments
    ret,          \* what that call returned (<<>> while it has not)
    disk          \* the files of the directory a store persists to, by path

vars == <<queue, pc, tokio_tasks, workers, count, storage, failures, explore, arcs, stored, call, ret, disk>>

----------------------------------------------------------------------------
(* Bounds of the model *)

\* Spec: the governor grants a permit only while fewer workers than this are
\* unfinished, and at most MaxCount workers are spawned.
MaxInFlight == 2
MaxCount == 5
\* SpecSeq: at most this many workers are spawned.
MaxSeqCount == 12
\* At most this many forge calls fail in one run.
MaxFailures == 1
\* SpecFlood: this many tasks are queued when handle_tasks starts.
FloodTasks == 51
\* SpecStore: at most this many store calls are made.
MaxStores == 5

NONE == -1

\* No function is called directly.
Idle == [fn |-> "none"]

----------------------------------------------------------------------------
(* Tasks *)

Task(k, p, i) == [kind |-> k, project |-> p, id |-> i]

DiscoverRunners == Task("DiscoverRunners", 0, 0)
UpdateRunnerTask(r) == Task("UpdateRunner", 0, r)
UpdateUserTask(u) == Task("UpdateUser", 0, u)
UpdateProjectTask(p) == Task("UpdateProject", p, 0)
DiscoverPipelineSchedulesTask(p) == Task("DiscoverPipelineSchedules", p, 0)
UpdatePipelineScheduleTask(p, s) == Task("UpdatePipelineSchedule", p, s)
DiscoverMergeRequestsTask(p) == Task("DiscoverMergeRequests", p, 0)
UpdateMergeRequestTask(p, m) == Task("UpdateMergeRequest", p, m)
DiscoverPipelinesTask(p) == Task("DiscoverPipelines", p, 0)
DiscoverMergeRequestPipelinesTask(p, m) == Task("DiscoverMergeRequestPipelines", p, m)
UpdatePipelineTask(p, i) == Task("UpdatePipeline", p, i)
DiscoverEnvironmentsTask(p) == Task("DiscoverEnvironments", p, 0)
DiscoverDeploymentsTask(p) == Task("DiscoverDeployments", p, 0)
DiscoverJobsTask(p, i) == Task("DiscoverJobs", p, i)
UpdateJobTask(p, j) == Task("UpdateJob", p, j)

\* A message in the channel: the task, and (history) which worker's outcome it
\* came from and its position in that outcome.  The seeds have origin NONE.
Msg(t, o, n) == [task |-> t, origin |-> o, pos |-> n]

----------------------------------------------------------------------------
(* The object store: VecLookup *)

\* HasId::id: forge_id for the forge-assigned types, unique_id otherwise.
id(e) == IF "forge_id" \in DOMAIN e THEN e.forge_id ELSE e.unique_id

\* A plausible slip of find: the position counted from one.
find_one_based(vec, i) ==
    IF \E k \in 1..Len(vec) : id(vec[k]) = i
    THEN CHOOSE k \in 1..Len(vec) :
              /\ id(vec[k]) = i
              /\ \A j \in 1..(k - 1) : id(vec[j]) # i
    ELSE NONE

\* DiscoverableLookup::find: the index of the first entry with this id.
find(vec, i) ==
    IF \E k \in 1..Len(vec) : id(vec[k]) = i
    THEN (CHOOSE k \in 1..Len(vec) :
              /\ id(vec[k]) = i
              /\ \A j \in 1..(k - 1) : id(vec[j]) # i) - 1
    ELSE NONE

\* Lookup::lookup: Vec::get. The empty sequence stands for Option::None,
\* <<e>> for Some(e).
lookup(vec, idx) ==
    IF idx >= 0 /\ idx < Len(vec) THEN <<vec[idx + 1]>> ELSE <<>>

\* A plausible slip of Lookup::store: always push.
store_push(vec, data) == Append(vec, data)

\* Lookup::store: overwrite the first entry with data's id, else push.
store(vec, data) ==
    IF find(vec, id(data)) # NONE
    THEN [vec EXCEPT ![find(vec, id(data)) + 1] = data]
    ELSE Append(vec, data)

\* A plausible slip of Lookup::store: the index of a pushed entry is returned
\* even when an entry was overwritten.
store_index_pushed(vec, data) == Len(vec)

\* The index Lookup::store returns for data when the Vec is vec.
store_index(vec, data) ==
    IF find(vec, id(data)) # NONE THEN find(vec, id(data)) ELSE Len(vec)

\* ArcLookup::store: Arc::new(data), whatever has been stored before.
arc_store(heap, data) == Append(heap, data)

\* The ArcIndex that ArcLookup::store returns: the address of the new Arc.
arc_store_index(heap, data) == Len(heap)

\* ArcLookup::lookup: Some(&idx.arc)
arc_lookup(heap, idx) == <<heap[idx + 1]>>

\* VecLookup::default() after GitlabForge::new stored the Instance.
NewStorage ==
    [instances |-> <<[unique_id |-> 0]>>,
     users |-> <<>>, projects |-> <<>>, runners |-> <<>>,
     pipelines |-> <<>>, jobs |-> <<>>,
     merge_requests |-> <<>>, pipeline_schedules |-> <<>>]

\* GitlabForge::instance_index
instance_index == 0

----------------------------------------------------------------------------
(* What the GitLab instance answers.  Ids that the instance does not know   *)
(* are answered with an error (see Serves).                                 *)

\* api::runners::AllRunners
GlRunners == <<1>>

\* api::projects::Project
GlProject(p) ==
    [id |-> p,
     merge_requests_access_level |-> IF p = 2 THEN "private" ELSE "disabled",
     builds_access_level |-> IF p = 1 THEN "enabled" ELSE "disabled",
     environments_access_level |-> IF p = 4 THEN "enabled" ELSE "disabled",
     forked_from_project |-> IF p = 4 THEN 2 ELSE IF p = 2 THEN 3 ELSE NONE,
     updated_at |-> 0]

\* api::projects::pipelines::Pipelines
GlPipelines(p) == IF p = 1 THEN <<1>> ELSE IF p = 3 THEN <<2>> ELSE <<>>

\* api::projects::pipelines::Pipeline: pipeline 1 of project 1 was started by
\* user 1, pipeline 2 of project 3 by nobody.
GlPipeline(p, i) ==
    [id |-> i, project_id |-> IF i = 1 THEN 1 ELSE 3,
     user |-> IF i = 1 THEN 1 ELSE NONE]

\* api::projects::pipelines::PipelineJobs
GlPipelineJobs(p, i) == <<i>>

\* api::projects::jobs::Job: job 1 of pipeline 1 ran on runner 1, job 2 of
\* pipeline 2 has no runner.
GlJob(p, j) ==
    [id |-> j, user |-> j, pipeline |-> [id |-> j, project_id |-> IF j = 1 THEN 1 ELSE 3],
     runner |-> IF j = 1 THEN 1 ELSE NONE]

\* api::projects::pipeline_schedules::PipelineSchedules
GlPipelineSchedules(p) == IF p = 2 THEN <<1>> ELSE <<>>

\* api::projects::pipeline_schedules::PipelineSchedule
GlPipelineSchedule(p, s) == [id |-> s, owner |-> 2]

\* api::projects::merge_requests::MergeRequests (the iids)
GlMergeRequests(p) == IF p = 2 THEN <<1>> ELSE <<>>

\* api::projects::merge_requests::MergeRequest
GlMergeRequest(p, m) ==
    [id |-> m, iid |-> m, author |-> 2, state |-> "locked",
     source_project_id |-> 3, target_project_id |-> 2]

\* api::projects::merge_requests::MergeRequestPipelines
GlMergeRequestPipelines(p, m) == <<>>

\* Whether the instance has what the task's first query asks for.
Serves(t) ==
    CASE t.kind = "UpdateUser" -> t.id \in {1, 2}
      [] t.kind = "UpdateRunner" -> t.id = 1
      [] t.kind \in {"UpdateProject", "DiscoverPipelineSchedules",
                     "DiscoverMergeRequests", "DiscoverPipelines"} ->
            t.project \in {1, 2, 3, 4}
      [] t.kind \in {"UpdatePipeline", "DiscoverJobs", "UpdateJob"} ->
            <<t.project, t.id>> \in {<<1, 1>>, <<3, 2>>}
      [] t.kind = "UpdatePipelineSchedule" -> t.project = 2 /\ t.id = 1
      [] t.kind \in {"UpdateMergeRequest", "DiscoverMergeRequestPipelines"} ->
            t.project = 2 /\ t.id = 1
      [] OTHER -> TRUE

\* The task variants run_task_async dispatches to a function of tasks::.
Handled ==
    {"UpdateProject", "UpdateUser", "DiscoverRunners", "UpdateRunner",
     "DiscoverPipelineSchedules", "UpdatePipelineSchedule",
     "DiscoverMergeRequests", "UpdateMergeRequest", "DiscoverPipelines",
     "DiscoverMergeRequestPipelines", "UpdatePipeline", "DiscoverJobs",
     "UpdateJob"}

\* Utc::now() as the adapter reads it: no updated_at is later.
Now == 1

----------------------------------------------------------------------------
(* A worker: the future spawned for one task.                               *)
(*   add   outcome.additional_tasks                                         *)
(*   sent  how many of them the worker has sent                             *)
(*   entry the record the worker is about to store (<<>> before it has one) *)

NewWorker(t) ==
    [task |-> t, pc |-> "start", add |-> <<>>, sent |-> 0, err |-> "",
     user_idx |-> NONE, project_idx |-> NONE, other_idx |-> NONE,
     idx |-> NONE, entry |-> <<>>]

\* The future has returned: its locals are dropped, the JoinHandle is finished.
Finished(w) == [NewWorker(w.task) EXCEPT !.pc = "finished", !.err = w.err]

\* The outcome of one step of an adapter function: the worker and the store.
Out(w, st) == [w |-> w, st |-> st]

\* return Ok(outcome)
Ok(w, st) == Out([w EXCEPT !.pc = "send"], st)

\* return Err(e): the worker prints the error and sends nothing.
Err(w, st, e) == Out([w EXCEPT !.pc = "send", !.err = e, !.add = <<>>], st)

\* outcome.additional_tasks.push(task)
add_task(w, t) == [w EXCEPT !.add = Append(@, t)]

\* The update closure applied to a clone of e: the fields of changes are set,
\* the others kept.
update(e, changes) ==
    [f \in DOMAIN e |-> IF f \in DOMAIN changes THEN changes[f] ELSE e[f]]

\* The update closure that sets nothing.
Nothing == [f \in {} |-> 0]

\* "Create a ... entry": find the record of this id; clone and update it if it
\* is there, build a new one if not.  One read guard spans find and lookup.
Entry(w, st, vec, i, changes, built) ==
    LET idx == find(vec, i) IN
    IF idx = NONE
    THEN Out([w EXCEPT !.idx = idx, !.entry = <<built>>, !.pc = "store"], st)
    ELSE IF lookup(vec, idx) = <<>> THEN Err(w, st, "Other")
    ELSE Out([w EXCEPT !.idx = idx, !.entry = <<update(lookup(vec, idx)[1], changes)>>,
                       !.pc = "store"], st)

\* tasks::update_user
update_user(w, st) ==
    CASE w.pc = "start" -> Out([w EXCEPT !.pc = "find"], st)
      [] w.pc = "find" ->
            Entry(w, st, st.users, w.task.id, Nothing,
                  [forge_id |-> w.task.id, instance |-> instance_index])
      [] w.pc = "store" ->
            Ok(w, [st EXCEPT !.users = store(st.users, w.entry[1])])

\* tasks::update_runner
update_runner(w, st) ==
    CASE w.pc = "start" -> Out([w EXCEPT !.pc = "find"], st)
      [] w.pc = "find" ->
            Entry(w, st, st.runners, w.task.id, Nothing,
                  [forge_id |-> w.task.id, instance |-> instance_index])
      [] w.pc = "store" ->
            Ok(w, [st EXCEPT !.runners = store(st.runners, w.entry[1])])

\* map_ok(|x| task { id: x.id }).try_collect(): one task per listed id.
MapTasks(ids, task) == [k \in 1..Len(ids) |-> [task EXCEPT !.id = ids[k]]]

\* map_ok(|pipeline| UpdatePipeline { project: pipeline.project_id,
\* pipeline: pipeline.id }).try_collect() for the pipelines listed under p.
PipelineTasks(p, ids) ==
    [k \in 1..Len(ids) |-> UpdatePipelineTask(GlPipeline(p, ids[k]).project_id, ids[k])]

\* tasks::discover_runners
discover_runners(w, st) ==
    Ok([w EXCEPT !.add = MapTasks(GlRunners, UpdateRunnerTask(0))], st)

\* tasks::discover_pipeline_schedules
discover_pipeline_schedules(w, st) ==
    Ok([w EXCEPT !.add = MapTasks(GlPipelineSchedules(w.task.project),
                                  UpdatePipelineScheduleTask(w.task.project, 0))], st)

\* tasks::discover_merge_requests
discover_merge_requests(w, st) ==
    Ok([w EXCEPT !.add = MapTasks(GlMergeRequests(w.task.project),
                                  UpdateMergeRequestTask(w.task.project, 0))], st)

\* tasks::discover_pipelines
discover_pipelines(w, st) ==
    Ok([w EXCEPT !.add = PipelineTasks(w.task.project, GlPipelines(w.task.project))], st)

\* tasks::discover_merge_request_pipelines
discover_merge_request_pipelines(w, st) ==
    Ok([w EXCEPT !.add = PipelineTasks(w.task.project,
                                       GlMergeRequestPipelines(w.task.project, w.task.id))], st)

\* tasks::discover_jobs
discover_jobs(w, st) ==
    Ok([w EXCEPT !.add = MapTasks(GlPipelineJobs(w.task.project, w.task.id),
                                  UpdateJobTask(w.task.project, 0))], st)

\* A plausible slip of is_enabled: private is taken for disabled.
is_enabled_only(level) == level = "enabled"

\* AccessLevel::is_enabled
is_enabled(level) == level \in {"enabled", "private"}

\* A plausible slip of update_project_impl: the fork parent is not followed.
ProjectComponentsNoParent(gl) ==
    (IF is_enabled(gl.merge_requests_access_level)
     THEN <<DiscoverMergeRequestsTask(gl.id)>> ELSE <<>>)
    \o (IF is_enabled(gl.builds_access_level)
        THEN <<DiscoverPipelineSchedulesTask(gl.id), DiscoverPipelinesTask(gl.id)>>
        ELSE <<>>)
    \o (IF is_enabled(gl.environments_access_level)
        THEN <<DiscoverEnvironmentsTask(gl.id), DiscoverDeploymentsTask(gl.id)>>
        ELSE <<>>)

\* The discovery tasks update_project_impl adds when update_components holds.
ProjectComponents(gl) ==
    (IF is_enabled(gl.merge_requests_access_level)
     THEN <<DiscoverMergeRequestsTask(gl.id)>> ELSE <<>>)
    \o (IF is_enabled(gl.builds_access_level)
        THEN <<DiscoverPipelineSchedulesTask(gl.id), DiscoverPipelinesTask(gl.id)>>
        ELSE <<>>)
    \o (IF is_enabled(gl.environments_access_level)
        THEN <<DiscoverEnvironmentsTask(gl.id), DiscoverDeploymentsTask(gl.id)>>
        ELSE <<>>)
    \o (IF gl.forked_from_project # NONE
        THEN <<UpdateProjectTask(gl.forked_from_project)>> ELSE <<>>)

\* A plausible slip of the freshness test: a record as old as the forge's
\* project counts as stale.
update_project_impl_not_newer(w, st, gl) ==
    CASE w.pc = "find" ->
            LET existing == lookup(st.projects, find(st.projects, gl.id))
                update_components ==
                    existing = <<>> \/ existing[1].cim_refreshed_at <= gl.updated_at
                r == Entry(w, st, st.projects, gl.id,
                           [cim_refreshed_at |-> Now],
                           [forge_id |-> gl.id, instance |-> instance_index,
                            cim_refreshed_at |-> Now])
            IN IF r.w.err # "" \/ ~update_components THEN r
               ELSE Out([r.w EXCEPT !.add = @ \o ProjectComponents(gl)], r.st)
      [] w.pc = "store" ->
            Ok(w, [st EXCEPT !.projects = store(st.projects, w.entry[1])])

\* tasks::update_project_impl for the forge's answer gl
update_project_impl(w, st, gl) ==
    CASE w.pc = "find" ->
            LET existing == lookup(st.projects, find(st.projects, gl.id))
                update_components ==
                    existing = <<>> \/ existing[1].cim_refreshed_at < gl.updated_at
                r == Entry(w, st, st.projects, gl.id,
                           [cim_refreshed_at |-> Now],
                           [forge_id |-> gl.id, instance |-> instance_index,
                            cim_refreshed_at |-> Now])
            IN IF r.w.err # "" \/ ~update_components THEN r
               ELSE Out([r.w EXCEPT !.add = @ \o ProjectComponents(gl)], r.st)
      [] w.pc = "store" ->
            Ok(w, [st EXCEPT !.projects = store(st.projects, w.entry[1])])

\* tasks::update_project: the query, then update_project_impl
update_project(w, st) ==
    IF w.pc = "start" THEN Out([w EXCEPT !.pc = "find"], st)
    ELSE update_project_impl(w, st, GlProject(w.task.project))

\* tasks::update_pipeline
update_pipeline(w, st) ==
    LET gl == GlPipeline(w.task.project, w.task.id) IN
    CASE w.pc = "start" ->
            Out([w EXCEPT !.pc = IF gl.user # NONE THEN "find_user" ELSE "find_project"], st)
      [] w.pc = "find_user" ->
            LET idx == find(st.users, gl.user)
                w1 == [w EXCEPT !.user_idx = idx, !.pc = "find_project"]
            IN Out(IF idx = NONE THEN add_task(w1, UpdateUserTask(gl.user)) ELSE w1, st)
      [] w.pc = "find_project" ->
            LET idx == find(st.projects, gl.project_id)
                w1 == [w EXCEPT !.project_idx = idx] IN
            IF idx = NONE
            THEN Ok(add_task(add_task(w1, UpdateProjectTask(gl.project_id)),
                             UpdatePipelineTask(w.task.project, gl.id)), st)
            ELSE Out([add_task(w1, DiscoverJobsTask(gl.project_id, gl.id))
                         EXCEPT !.pc = "find"], st)
      [] w.pc = "find" ->
            Entry(w, st, st.pipelines, gl.id,
                  IF w.user_idx # NONE THEN [user |-> w.user_idx] ELSE Nothing,
                  [forge_id |-> gl.id, project |-> w.project_idx, user |-> w.user_idx])
      [] w.pc = "store" ->
            Ok(w, [st EXCEPT !.pipelines = store(st.pipelines, w.entry[1])])

\* A plausible slip of the deferral: the job itself is not sent again.
job_decide_no_retry(w, st) ==
    IF w.user_idx = NONE \/ w.project_idx = NONE
    THEN Ok(w, st)
    ELSE Out([w EXCEPT !.pc = "find"], st)

\* update_job after its three lookups: defer, or go on to the job entry.
job_decide(w, st) ==
    IF w.user_idx = NONE \/ w.project_idx = NONE
    THEN Ok(add_task(w, UpdateJobTask(w.task.project, GlJob(w.task.project, w.task.id).id)), st)
    ELSE Out([w EXCEPT !.pc = "find"], st)

\* tasks::update_job.  project_idx holds pipeline_idx, other_idx runner_idx.
update_job(w, st) ==
    LET gl == GlJob(w.task.project, w.task.id) IN
    CASE w.pc = "start" -> Out([w EXCEPT !.pc = "find_user"], st)
      [] w.pc = "find_user" ->
            LET idx == find(st.users, gl.user)
                w1 == [w EXCEPT !.user_idx = idx, !.pc = "find_pipeline"]
            IN Out(IF idx = NONE THEN add_task(w1, UpdateUserTask(gl.user)) ELSE w1, st)
      [] w.pc = "find_pipeline" ->
            LET idx == find(st.pipelines, gl.pipeline.id)
                w1 == [w EXCEPT !.project_idx = idx, !.pc = "find_runner"]
                w2 == IF idx = NONE
                      THEN add_task(w1, UpdatePipelineTask(gl.pipeline.project_id, gl.pipeline.id))
                      ELSE w1
            IN IF gl.runner = NONE THEN job_decide(w2, st) ELSE Out(w2, st)
      [] w.pc = "find_runner" ->
            LET idx == find(st.runners, gl.runner)
                w1 == [w EXCEPT !.other_idx = idx]
            IN job_decide(IF idx = NONE THEN add_task(w1, UpdateRunnerTask(gl.runner)) ELSE w1, st)
      [] w.pc = "find" ->
            Entry(w, st, st.jobs, gl.id, Nothing,
                  [forge_id |-> gl.id, user |-> w.user_idx,
                   pipeline |-> w.project_idx, runner |-> w.other_idx])
      [] w.pc = "store" ->
            Ok(w, [st EXCEPT !.jobs = store(st.jobs, w.entry[1])])

\* A plausible slip of the conversion: a locked merge request counts as closed.
MergeRequestStatusLocked(gms) ==
    CASE gms \in {"opened", "reopened"} -> "Open"
      [] gms \in {"closed", "locked"} -> "Closed"
      [] gms = "merged" -> "Merged"

\* From<GitlabMergeState> for MergeRequestStatus
MergeRequestStatus(gms) ==
    CASE gms \in {"opened", "reopened", "locked"} -> "Open"
      [] gms = "closed" -> "Closed"
      [] gms = "merged" -> "Merged"

\* update_merge_request after its lookups: defer, or go on to the entry.
\* project_idx holds target_project_idx, other_idx source_project_idx.
merge_request_decide(w, st, gl) ==
    IF w.user_idx = NONE \/ w.project_idx = NONE \/ w.other_idx = NONE
    THEN Ok(add_task(w, UpdateMergeRequestTask(w.task.project, gl.id)), st)
    ELSE Out([add_task(w, DiscoverMergeRequestPipelinesTask(w.task.project, gl.iid))
                 EXCEPT !.pc = "find"], st)

\* tasks::update_merge_request after its query was answered with gl
update_merge_request_details(w, st, gl) ==
    CASE w.pc = "find_user" ->
            LET idx == find(st.users, gl.author)
                w1 == [w EXCEPT !.user_idx = idx, !.pc = "find_project"]
            IN Out(IF idx = NONE THEN add_task(w1, UpdateUserTask(gl.author)) ELSE w1, st)
      [] w.pc = "find_project" ->
            LET idx == find(st.projects, gl.target_project_id)
                w1 == [w EXCEPT !.project_idx = idx, !.pc = "find_source"]
                w2 == IF idx = NONE
                      THEN add_task(w1, UpdateProjectTask(gl.target_project_id))
                      ELSE w1
            IN IF gl.source_project_id = NONE \/ gl.source_project_id = gl.target_project_id
               THEN merge_request_decide([w2 EXCEPT !.other_idx = idx], st, gl)
               ELSE Out(w2, st)
      [] w.pc = "find_source" ->
            LET idx == find(st.projects, gl.source_project_id)
                w1 == [w EXCEPT !.other_idx = idx]
            IN merge_request_decide(
                   IF idx = NONE THEN add_task(w1, UpdateProjectTask(gl.source_project_id))
                   ELSE w1, st, gl)
      [] w.pc = "find" ->
            Entry(w, st, st.merge_requests, gl.id,
                  [state |-> MergeRequestStatus(gl.state)],
                  [forge_id |-> gl.id, id |-> gl.iid, source_project |-> w.other_idx,
                   target_project |-> w.project_idx, author |-> w.user_idx,
                   state |-> MergeRequestStatus(gl.state)])
      [] w.pc = "store" ->
            Ok(w, [st EXCEPT !.merge_requests = store(st.merge_requests, w.entry[1])])

\* tasks::update_merge_request: the query, then the rest
update_merge_request(w, st) ==
    IF w.pc = "start" THEN Out([w EXCEPT !.pc = "find_user"], st)
    ELSE update_merge_request_details(w, st, GlMergeRequest(w.task.project, w.task.id))

\* tasks::update_pipeline_schedule
update_pipeline_schedule(w, st) ==
    LET gl == GlPipelineSchedule(w.task.project, w.task.id) IN
    CASE w.pc = "start" -> Out([w EXCEPT !.pc = "find_user"], st)
      [] w.pc = "find_user" ->
            LET idx == find(st.users, gl.owner)
                w1 == [w EXCEPT !.user_idx = idx, !.pc = "find_project"]
            IN Out(IF idx = NONE THEN add_task(w1, UpdateUserTask(gl.owner)) ELSE w1, st)
      [] w.pc = "find_project" ->
            LET idx == find(st.projects, w.task.project)
                w1 == [w EXCEPT !.project_idx = idx]
                w2 == IF idx = NONE THEN add_task(w1, UpdateProjectTask(w.task.project))
                      ELSE w1
            IN IF w2.user_idx = NONE \/ idx = NONE
               THEN Ok(add_task(w2, UpdatePipelineScheduleTask(w.task.project, gl.id)), st)
               ELSE Out([w2 EXCEPT !.pc = "find"], st)
      [] w.pc = "find" ->
            Entry(w, st, st.pipeline_schedules, gl.id,
                  [owner |-> w.user_idx],
                  [forge_id |-> gl.id, project |-> w.project_idx, owner |-> w.user_idx])
      [] w.pc = "store" ->
            Ok(w, [st EXCEPT !.pipeline_schedules =
                                 store(st.pipeline_schedules, w.entry[1])])

\* Forge::run_task_async: the function the task dispatches to, one access to
\* the store at a time.
dispatch(w, st) ==
    CASE w.task.kind = "UpdateProject" -> update_project(w, st)
      [] w.task.kind = "UpdateUser" -> update_user(w, st)
      [] w.task.kind = "DiscoverRunners" -> discover_runners(w, st)
      [] w.task.kind = "UpdateRunner" -> update_runner(w, st)
      [] w.task.kind = "DiscoverPipelineSchedules" -> discover_pipeline_schedules(w, st)
      [] w.task.kind = "UpdatePipelineSchedule" -> update_pipeline_schedule(w, st)
      [] w.task.kind = "DiscoverMergeRequests" -> discover_merge_requests(w, st)
      [] w.task.kind = "UpdateMergeRequest" -> update_merge_request(w, st)
      [] w.task.kind = "DiscoverPipelines" -> discover_pipelines(w, st)
      [] w.task.kind = "DiscoverMergeRequestPipelines" ->
            discover_merge_request_pipelines(w, st)
      [] w.task.kind = "UpdatePipeline" -> update_pipeline(w, st)
      [] w.task.kind = "DiscoverJobs" -> discover_jobs(w, st)
      [] w.task.kind = "UpdateJob" -> update_job(w, st)
      [] OTHER -> Err(w, st, "Unknown")

\* One step of a worker inside run_task_async.  The forge's answer touches
\* nothing the other workers or handle_tasks can see, so the step that
\* receives it runs on to the function's first access to the store.
run_task_async(w, st) ==
    IF w.pc = "start" /\ dispatch(w, st).w.pc # "send"
    THEN dispatch(dispatch(w, st).w, st)
    ELSE dispatch(w, st)

----------------------------------------------------------------------------
(* errors::forge_error *)

\* http::StatusCode: 100 to 999
StatusCodes == 100..999

\* StatusCode::is_client_error
is_client_error(status) == 400 <= status /\ status < 500

\* StatusCode::is_server_error
is_server_error(status) == 500 <= status /\ status < 600

\* ApiError<RestError>, as far as forge_error tells its variants apart: Auth,
\* GitlabService with the status of the response, and the others, of which
\* Client is the failure of the communication with the server.
ServiceError(status) == [kind |-> "GitlabService", status |-> status]

ApiErrors ==
    {ServiceError(status) : status \in StatusCodes}
        \cup [kind : {"Auth", "Client", "Json", "DataType"}, status : {0}]

\* errors::forge_error: the variant of ForgeError
forge_error(err) ==
    CASE err.kind = "Auth" -> "Auth"
      [] err.kind = "GitlabService" ->
            IF is_server_error(err.status) THEN "Connection"
            ELSE IF is_client_error(err.status) THEN "Auth"
            ELSE "Other"
      [] OTHER -> "Other"

\* The error a failing first query of task t ends with.
QueryError(t) == IF Serves(t) THEN ServiceError(503) ELSE ServiceError(404)

----------------------------------------------------------------------------
(* handle_tasks and its workers *)

\* The queues handle_tasks is started on: what try_main sends, and others.
Seeds ==
    { <<>>,
      <<DiscoverRunners, UpdateProjectTask(1)>>,
      <<UpdateJobTask(1, 1)>>,
      <<UpdateProjectTask(3), UpdateJobTask(3, 2)>>,
      <<UpdateUserTask(1), UpdateUserTask(1)>>,
      <<UpdateProjectTask(2)>> }

SeqSeeds ==
    { <<DiscoverRunners, UpdateProjectTask(1)>>,
      <<UpdateJobTask(1, 1)>>,
      <<UpdateJobTask(3, 2)>>,
      <<UpdatePipelineScheduleTask(2, 1)>>,
      <<UpdateMergeRequestTask(2, 1)>>,
      <<UpdateProjectTask(2)>>,
      <<UpdateProjectTask(4)>> }

Start(seeds, in_flight, spawned) ==
    /\ queue = [k \in 1..Len(seeds) |-> Msg(seeds[k], NONE, 0)]
    /\ pc = "recv"
    /\ tokio_tasks = <<>>
    /\ workers = <<>>
    /\ count = 0
    /\ storage = NewStorage
    /\ failures = 0
    /\ explore = [in_flight |-> in_flight, count |-> spawned]
    /\ arcs = <<>>
    /\ stored = <<>>
    /\ call = Idle
    /\ ret = <<>>
    /\ disk = <<>>

\* Concurrent workers, short runs.
Init == \E s \in Seeds : Start(s, MaxInFlight, MaxCount)

\* One worker at a time, runs to quiescence.
InitSeq == \E s \in SeqSeeds : Start(s, 1, MaxSeqCount)

Unfinished == {i \in DOMAIN workers : workers[i].pc # "finished"}

\* recv.recv().await returns Some(task) (never None: handle_tasks itself holds
\* a sender), governor.until_ready_with_jitter(jitter).await returns, then
\* tokio::spawn and tokio_tasks.push.  Nothing but handle_tasks reads the
\* channel, so the three are one step.
Recv ==
    /\ pc = "recv"
    /\ queue # <<>>
    /\ Cardinality(Unfinished) < explore.in_flight
    /\ count < explore.count
    /\ queue' = Tail(queue)
    /\ workers' = [i \in DOMAIN workers \cup {count} |->
                      IF i = count THEN NewWorker(Head(queue).task) ELSE workers[i]]
    /\ tokio_tasks' = Append(tokio_tasks, count)
    /\ count' = count + 1
    /\ pc' = "retire"
    /\ UNCHANGED <<storage, failures, explore, arcs, stored, call, ret, disk>>

\* partition(|task| task.is_finished()): the finished workers are joined, the
\* others stay in tokio_tasks.
Retire ==
    /\ pc = "retire"
    /\ tokio_tasks' = SelectSeq(tokio_tasks, LAMBDA h : workers[h].pc # "finished")
    /\ workers' = [i \in {tokio_tasks'[k] : k \in 1..Len(tokio_tasks')}
                       \cup (DOMAIN workers \ {tokio_tasks[k] : k \in 1..Len(tokio_tasks)})
                     |-> workers[i]]
    /\ pc' = "check"
    /\ UNCHANGED <<queue, count, storage, failures, explore, arcs, stored, call, ret, disk>>

\* A plausible slip of the inner break: leave handle_tasks at once, without
\* joining the workers that are still running.
CheckInnerReturn ==
    /\ pc = "check"
    /\ pc' = IF queue = <<>> THEN "done" ELSE "recv"
    /\ UNCHANGED <<queue, tokio_tasks, workers, count, storage, failures, explore, arcs, stored, call, ret, disk>>

\* if recv.is_empty() { break; } at the end of the inner loop
CheckInner ==
    /\ pc = "check"
    /\ pc' = IF queue = <<>> THEN "join" ELSE "recv"
    /\ UNCHANGED <<queue, tokio_tasks, workers, count, storage, failures, explore, arcs, stored, call, ret, disk>>

\* for tokio_task in tokio_tasks { tokio_task.await.unwrap(); }
Join ==
    /\ pc = "join"
    /\ tokio_tasks # <<>>
    /\ workers[Head(tokio_tasks)].pc = "finished"
    /\ tokio_tasks' = Tail(tokio_tasks)
    /\ workers' = [i \in DOMAIN workers \ {Head(tokio_tasks)} |-> workers[i]]
    /\ UNCHANGED <<queue, pc, count, storage, failures, explore, arcs, stored, call, ret, disk>>

\* if recv.is_empty() { break; } at the end of the outer loop
CheckOuter ==
    /\ pc = "join"
    /\ tokio_tasks = <<>>
    /\ pc' = IF queue = <<>> THEN "done" ELSE "recv"
    /\ UNCHANGED <<queue, tokio_tasks, workers, count, storage, failures, explore, arcs, stored, call, ret, disk>>

\* A plausible slip of the error arm: the failed task is sent again.
QueryFailRetry(i) ==
    /\ workers[i].pc = "start"
    /\ workers[i].task.kind \in Handled
    /\ \/ ~Serves(workers[i].task) /\ failures' = failures
       \/ Serves(workers[i].task) /\ failures < MaxFailures /\ failures' = failures + 1
    /\ workers' = [workers EXCEPT ![i] =
                      Finished(Err(@, storage, forge_error(QueryError(@.task))).w)]
    /\ queue' = Append(queue, Msg(workers[i].task, i, 0))
    /\ UNCHANGED <<pc, tokio_tasks, count, storage, explore, arcs, stored, call, ret, disk>>

\* The forge call of worker i fails (503) or the instance does not serve what
\* it asks for (404): run_task_async returns Err, the worker prints it and
\* returns.
QueryFail(i) ==
    /\ workers[i].pc = "start"
    /\ workers[i].task.kind \in Handled
    /\ \/ ~Serves(workers[i].task) /\ failures' = failures
       \/ Serves(workers[i].task) /\ failures < MaxFailures /\ failures' = failures + 1
    /\ workers' = [workers EXCEPT ![i] =
                      Finished(Err(@, storage, forge_error(QueryError(@.task))).w)]
    /\ UNCHANGED <<queue, pc, tokio_tasks, count, storage, explore, arcs, stored, call, ret, disk>>

\* inner_forge.run_task_async(task): the next step of worker i up to its next
\* access to the store, or to its return.
RunTask(i) ==
    /\ workers[i].pc \notin {"send", "finished"}
    /\ workers[i].task.kind \in Handled => Serves(workers[i].task)
    /\ workers' = [workers EXCEPT ![i] = run_task_async(@, storage).w]
    /\ storage' = run_task_async(workers[i], storage).st
    /\ UNCHANGED <<queue, pc, tokio_tasks, count, failures, explore, arcs, stored, call, ret, disk>>

\* A plausible slip of the loop: the outcome's tasks are sent last first.
last_unsent(w) == Len(w.add) - w.sent

\* for task in outcome.additional_tasks: which task of the outcome (1-based)
\* the loop sends next.
next_task(w) == w.sent + 1

\* inner_send.send(task).unwrap() for the next task of the outcome
Send(i) ==
    /\ workers[i].pc = "send"
    /\ workers[i].sent < Len(workers[i].add)
    /\ queue' = Append(queue, Msg(workers[i].add[next_task(workers[i])], i,
                                  next_task(workers[i]) - 1))
    /\ workers' = [workers EXCEPT ![i].sent = @ + 1]
    /\ UNCHANGED <<pc, tokio_tasks, count, storage, failures, explore, arcs, stored, call, ret, disk>>

\* The spawned future returns: JoinHandle::is_finished() is true from now on.
Finish(i) ==
    /\ workers[i].pc = "send"
    /\ workers[i].sent = Len(workers[i].add)
    /\ workers' = [workers EXCEPT ![i] = Finished(@)]
    /\ UNCHANGED <<queue, pc, tokio_tasks, count, storage, failures, explore, arcs, stored, call, ret, disk>>

Worker(i) == QueryFail(i) \/ RunTask(i) \/ Send(i) \/ Finish(i)

Next ==
    \/ Recv \/ Retire \/ CheckInner \/ Join \/ CheckOuter
    \/ \E i \in DOMAIN workers : Worker(i)

Spec == Init /\ [][Next]_vars

SpecSeq == InitSeq /\ [][Next]_vars

----------------------------------------------------------------------------
(* A full queue and a slow forge: FloodTasks tasks are waiting when          *)
(* handle_tasks starts and no forge call answers while it receives them.    *)

FloodSeeds == [k \in 1..FloodTasks |-> UpdateRunnerTask(k)]

InitFlood == Start(FloodSeeds, FloodTasks + 1, FloodTasks + 1)

NextFlood == Recv \/ Retire \/ CheckInner

SpecFlood == InitFlood /\ [][NextFlood]_vars

----------------------------------------------------------------------------
(* The two Lookup implementations, called directly.                         *)

\* The values stored: users of two forge ids, each under two names.
Values == [forge_id : {1, 2}, instance : {instance_index}, name : {"a", "b"}]

\* <VecLookup as Lookup<User>>::store(data)
VecStore(data) ==
    /\ Len(stored) < MaxStores
    /\ storage' = [storage EXCEPT !.users = store(@, data)]
    /\ stored' = Append(stored, [backend |-> "vec", data |-> data,
                                 idx |-> store_index(storage.users, data)])
    /\ UNCHANGED <<queue, pc, tokio_tasks, workers, count, failures, explore, arcs,
                   call, ret, disk>>

\* <ArcLookup as Lookup<User>>::store(data)
ArcStore(data) ==
    /\ Len(stored) < MaxStores
    /\ arcs' = arc_store(arcs, data)
    /\ stored' = Append(stored, [backend |-> "arc", data |-> data,
                                 idx |-> arc_store_index(arcs, data)])
    /\ UNCHANGED <<queue, pc, tokio_tasks, workers, count, failures, explore, storage,
                   call, ret, disk>>

InitStore == Start(<<>>, 0, 0)

NextStore == \E data \in Values : VecStore(data) \/ ArcStore(data)

SpecStore == InitStore /\ [][NextStore]_vars

----------------------------------------------------------------------------
(* update_project_impl, called directly with every answer of the forge.     *)

\* AccessLevel
AccessLevels == {"enabled", "private", "disabled"}

\* The project the calls are about, and the project it may be forked from.
ProjectId == 5
ParentId == 6

\* GitlabProject: what the forge may answer for the project.
GitlabProjects ==
    [id : {ProjectId},
     merge_requests_access_level : AccessLevels,
     builds_access_level : AccessLevels,
     environments_access_level : AccessLevels,
     forked_from_project : {NONE, ParentId},
     updated_at : {0, Now}]

\* The store before the call: without the project, or with the record an
\* earlier update stored at time 0 or just now.
ProjectStores ==
    {NewStorage} \cup
    {[NewStorage EXCEPT !.projects = <<[forge_id |-> ProjectId, instance |-> instance_index,
                                        cim_refreshed_at |-> t]>>] : t \in {0, Now}}

\* The state in which function c is called directly on the store st while the
\* directory holds d; the locals of an adapter function are held by worker 0,
\* which starts at c.pc.
Called(c, st, d) ==
    /\ queue = <<>>
    /\ pc = "recv"
    /\ tokio_tasks = <<>>
    /\ workers = IF "task" \in DOMAIN c
                 THEN [i \in {0} |-> [NewWorker(c.task) EXCEPT !.pc = c.pc]]
                 ELSE <<>>
    /\ count = 0
    /\ storage = st
    /\ failures = 0
    /\ explore = [in_flight |-> 0, count |-> 0]
    /\ arcs = <<>>
    /\ stored = <<>>
    /\ call = c
    /\ ret = <<>>
    /\ disk = d

InitProject ==
    \E gl \in GitlabProjects, st \in ProjectStores :
        Called([fn |-> "update_project_impl", task |-> UpdateProjectTask(gl.id), gl |-> gl,
                pc |-> "find"], st, <<>>)

\* One step of update_project_impl(project, gl_project): up to its next
\* access to the store, or to its return.
UpdateProjectImpl ==
    /\ call.fn = "update_project_impl"
    /\ workers[0].pc \in {"find", "store"}
    /\ workers' = [workers EXCEPT ![0] = update_project_impl(@, storage, call.gl).w]
    /\ storage' = update_project_impl(workers[0], storage, call.gl).st
    /\ UNCHANGED <<queue, pc, tokio_tasks, count, failures, explore, arcs, stored, call, ret, disk>>

NextProject == UpdateProjectImpl

SpecProject == InitProject /\ [][NextProject]_vars

----------------------------------------------------------------------------
(* update_merge_request, called again and again on one merge request whose  *)
(* state on the forge changes between the calls.                            *)

\* How often the merge request is observed.
MaxObservations == 3

\* GitlabMergeState
GitlabMergeStates == {"opened", "closed", "reopened", "merged", "locked"}

\* The store before the first call: the author and both projects of the
\* merge request are stored; no merge request is, or another one is.
MergeRequestStores ==
    LET st == [NewStorage EXCEPT
                  !.users = <<[forge_id |-> 2, instance |-> instance_index]>>,
                  !.projects = <<[forge_id |-> 2, instance |-> instance_index,
                                  cim_refreshed_at |-> Now],
                                 [forge_id |-> 3, instance |-> instance_index,
                                  cim_refreshed_at |-> Now]>>]
    IN {st,
        [st EXCEPT !.merge_requests =
            <<[forge_id |-> 7, id |-> 7, source_project |-> 0, target_project |-> 0,
               author |-> 0, state |-> "Merged"]>>]}

InitMergeRequest ==
    \E gms \in GitlabMergeStates, st \in MergeRequestStores :
        Called([fn |-> "update_merge_request", task |-> UpdateMergeRequestTask(2, 1),
                gl |-> [GlMergeRequest(2, 1) EXCEPT !.state = gms],
                pc |-> "find_user", seen |-> 1], st, <<>>)

\* One step of update_merge_request after its query: up to its next access to
\* the store, or to its return.
UpdateMergeRequest ==
    /\ call.fn = "update_merge_request"
    /\ workers[0].pc # "send"
    /\ workers' = [workers EXCEPT ![0] = update_merge_request_details(@, storage, call.gl).w]
    /\ storage' = update_merge_request_details(workers[0], storage, call.gl).st
    /\ UNCHANGED <<queue, pc, tokio_tasks, count, failures, explore, arcs, stored, call, ret, disk>>

\* The call has returned; the task runs again and the forge answers with the
\* state gms.
ObserveAgain(gms) ==
    /\ call.fn = "update_merge_request"
    /\ workers[0].pc = "send"
    /\ call.seen < MaxObservations
    /\ call' = [call EXCEPT !.gl.state = gms, !.seen = @ + 1]
    /\ workers' = [workers EXCEPT ![0] = [NewWorker(call.task) EXCEPT !.pc = "find_user"]]
    /\ UNCHANGED <<queue, pc, tokio_tasks, count, storage, failures, explore, arcs, stored, ret, disk>>

NextMergeRequest == UpdateMergeRequest \/ \E gms \in GitlabMergeStates : ObserveAgain(gms)

SpecMergeRequest == InitMergeRequest /\ [][NextMergeRequest]_vars

----------------------------------------------------------------------------
(* forge_error, called directly with every error of the SDK.                 *)

InitError ==
    \E err \in ApiErrors :
        Called([fn |-> "forge_error", err |-> err], NewStorage, <<>>)

\* .map_err(errors::forge_error)?
ForgeError ==
    /\ call.fn = "forge_error"
    /\ ret = <<>>
    /\ ret' = <<forge_error(call.err)>>
    /\ UNCHANGED <<queue, pc, tokio_tasks, workers, count, storage, failures, explore, arcs, stored, call, disk>>

NextError == ForgeError

SpecError == InitError /\ [][NextError]_vars

----------------------------------------------------------------------------
(* VecStore: the JSON persistence of a VecLookup.  A record carries its     *)
(* references, one enumeration where its type has one, and the fields a     *)
(* conversion treats on their own; text that is taken apart is a sequence   *)
(* of characters.                                                           *)

\* The entity types, in the order VecStore::store and VecStore::load go
\* through them.
Types ==
    <<"deployments", "environments", "instances", "jobs", "job_artifacts",
      "merge_requests", "pipelines", "pipeline_schedules", "projects", "runners",
      "runner_hosts", "users">>

\* Typename::typename
typename(type) ==
    CASE type = "deployments" -> "deployment"
      [] type = "environments" -> "environment"
      [] type = "instances" -> "instance"
      [] type = "jobs" -> "job"
      [] type = "job_artifacts" -> "job artifact"
      [] type = "merge_requests" -> "merge request"
      [] type = "pipelines" -> "pipeline"
      [] type = "pipeline_schedules" -> "pipeline schedule"
      [] type = "projects" -> "project"
      [] type = "runners" -> "runner"
      [] type = "runner_hosts" -> "runner host"
      [] type = "users" -> "user"

\* Result::Ok(value) and Result::Err(error) of the persistence
Success(value) == [ok |-> TRUE, value |-> value]
Failure(error) == [ok |-> FALSE, error |-> error]

\* VecStoreError
MissingIndex(missing_type, missing_index, from_type, from_index) ==
    [kind |-> "MissingIndex", missing_type |-> missing_type, missing_index |-> missing_index,
     from_type |-> from_type, from_index |-> from_index]

VecStoreError(kind, value) == [kind |-> kind, value |-> value]

\* The first error of a sequence of checks, each <<>> or <<error>>.
FirstError(errs) ==
    LET bad == {k \in DOMAIN errs : errs[k] # <<>>}
    IN IF bad = {} THEN <<>> ELSE errs[CHOOSE k \in bad : \A j \in bad : k <= j]

\* The lookup tables of the enumerations: (variant, string).
TABLE ==
    [DEPLOYMENT_STATUS |->
          <<<<"Created", "created">>, <<"Running", "running">>, <<"Success", "success">>,
          <<"Failed", "failed">>, <<"Canceled", "canceled">>, <<"Blocked", "blocked">>>>,
     ENVIRONMENT_STATE |->
          <<<<"Available", "available">>, <<"Stopping", "stopping">>, <<"Stopped", "stopped">>>>,
     JOB_STATE |->
          <<<<"Created", "created">>, <<"Pending", "pending">>, <<"Running", "running">>,
          <<"Failed", "failed">>, <<"Success", "success">>, <<"Canceled", "canceled">>,
          <<"Skipped", "skipped">>, <<"WaitingForResource", "waiting_for_resource">>,
          <<"Manual", "manual">>, <<"Scheduled", "scheduled">>>>,
     ARTIFACT_EXPIRATION |->
          <<<<"Unknown", "unknown">>, <<"Never", "never">>>>,
     ARTIFACT_STATE |->
          <<<<"Unknown", "unknown">>, <<"Pending", "pending">>, <<"Expired", "expired">>,
          <<"Present", "present">>, <<"Stored", "stored">>>>,
     MERGE_REQUEST_STATUS |->
          <<<<"Open", "open">>, <<"Closed", "closed">>, <<"Merged", "merged">>>>,
     PIPELINE_STATUS |->
          <<<<"Created", "created">>, <<"WaitingForResource", "waiting_for_resource">>,
          <<"Preparing", "preparing">>, <<"Pending", "pending">>, <<"Running", "running">>,
          <<"Success", "success">>, <<"Failed", "failed">>, <<"Canceled", "canceled">>,
          <<"Skipped", "skipped">>, <<"Manual", "manual">>, <<"Scheduled", "scheduled">>,
          <<"Completed", "completed">>, <<"Neutral", "neutral">>, <<"Stale", "stale">>,
          <<"StartupFailure", "startup_failure">>, <<"TimedOut", "timed_out">>>>]

\* enum_to_string_opt: the string of the first entry of the variant
enum_to_string_opt(lut, en) ==
    LET hits == {k \in 1..Len(lut) : lut[k][1] = en}
    IN IF hits = {} THEN <<>> ELSE <<lut[CHOOSE k \in hits : \A j \in hits : k <= j][2]>>

\* enum_to_string (it panics on a variant the table does not have; the
\* tables have every variant the stores here hold)
enum_to_string(lut, en) == enum_to_string_opt(lut, en)[1]

\* enum_from_string: the variant of the first entry of the string
enum_from_string(lut, st) ==
    LET hits == {k \in 1..Len(lut) : lut[k][2] = st}
    IN IF hits = {} THEN Failure(VecStoreError("InvalidEnumString", st))
       ELSE Success(lut[CHOOSE k \in hits : \A j \in hits : k <= j][1])

\* str::strip_suffix of one character, str::strip_prefix
strip_suffix(s, c) ==
    IF s # <<>> /\ s[Len(s)] = c THEN <<SubSeq(s, 1, Len(s) - 1)>> ELSE <<>>

strip_prefix(s, p) ==
    IF Len(p) <= Len(s) /\ SubSeq(s, 1, Len(p)) = p
    THEN <<SubSeq(s, Len(p) + 1, Len(s))>> ELSE <<>>

\* The literals of ArtifactKind::as_str and ArtifactKind::parse
Literal ==
    [job_log |-> <<"j", "o", "b", "_", "l", "o", "g">>,
     archive |-> <<"a", "r", "c", "h", "i", "v", "e">>,
     junit |-> <<"j", "u", "n", "i", "t">>,
     annotations |-> <<"a", "n", "n", "o", "t", "a", "t", "i", "o", "n", "s">>,
     archive_file |-> <<"a", "r", "c", "h", "i", "v", "e", "_", "f", "i", "l", "e", "(">>,
     custom |-> <<"c", "u", "s", "t", "o", "m", "(">>]

\* ArtifactKind
Kind(tag, arg) == [tag |-> tag, arg |-> arg]

\* ArtifactKind::as_str
as_str(kind) ==
    CASE kind.tag = "JobLog" -> Literal.job_log
      [] kind.tag = "Archive" -> Literal.archive
      [] kind.tag = "ArchiveFile" -> Literal.archive_file \o kind.arg \o <<")">>
      [] kind.tag = "JUnit" -> Literal.junit
      [] kind.tag = "Annotations" -> Literal.annotations
      [] kind.tag = "Custom" -> Literal.custom \o kind.arg

\* ArtifactKind::parse: <<kind>> or <<>>
parse(s) ==
    CASE s = Literal.job_log -> <<Kind("JobLog", <<>>)>>
      [] s = Literal.archive -> <<Kind("Archive", <<>>)>>
      [] s = Literal.junit -> <<Kind("JUnit", <<>>)>>
      [] s = Literal.annotations -> <<Kind("Annotations", <<>>)>>
      [] OTHER ->
            IF strip_suffix(s, ")") = <<>> THEN <<>>
            ELSE LET prefix == strip_suffix(s, ")")[1] IN
                 IF strip_prefix(prefix, Literal.archive_file) # <<>>
                 THEN <<Kind("ArchiveFile", strip_prefix(prefix, Literal.archive_file)[1])>>
                 ELSE IF strip_prefix(prefix, Literal.custom) # <<>>
                 THEN <<Kind("Custom", strip_prefix(prefix, Literal.custom)[1])>>
                 ELSE <<>>

\* ArtifactExpiration
Expiration(tag, dt) == [tag |-> tag, at |-> dt]

\* DateTime<Utc> as serde_json writes it, for the times 0 and Now.
DateTexts == <<"\"1970-01-01T00:00:00Z\"", "\"1970-01-01T00:00:01Z\"">>

\* artifact_expiration_to_string: the date as serde_json writes it, or the
\* string of the table
artifact_expiration_to_string(ae) ==
    IF ae.tag = "At" THEN DateTexts[ae.at + 1]
    ELSE enum_to_string(TABLE.ARTIFACT_EXPIRATION, ae.tag)

\* artifact_expiration_from_string: the table first, then the date
artifact_expiration_from_string(s) ==
    IF enum_from_string(TABLE.ARTIFACT_EXPIRATION, s).ok
    THEN Success(Expiration(enum_from_string(TABLE.ARTIFACT_EXPIRATION, s).value, 0))
    ELSE IF \E dt \in 1..Len(DateTexts) : DateTexts[dt] = s
    THEN Success(Expiration("At", (CHOOSE dt \in 1..Len(DateTexts) : DateTexts[dt] = s) - 1))
    ELSE Failure(VecStoreError("Json", 0))

\* UserJson, RunnerJson and RunnerHostJson: every field is written and read
\* back.
OtherJson_convert_to_json(o) == o
OtherJson_create_from_json(j) == Success(j)

\* JsonConvert::convert_to_json of each type
convert_to_json(type, o) ==
    CASE type = "deployments" ->
            [pipeline |-> o.pipeline, environment |-> o.environment, forge_id |-> o.forge_id,
             status |-> enum_to_string(TABLE.DEPLOYMENT_STATUS, o.status),
             cim_refreshed_at |-> o.cim_refreshed_at]
      [] type = "environments" ->
            [external_url |-> o.external_url,
             state |-> enum_to_string(TABLE.ENVIRONMENT_STATE, o.state),
             forge_id |-> o.forge_id, project |-> o.project,
             cim_refreshed_at |-> o.cim_refreshed_at]
      [] type = "instances" -> [unique_id |-> o.unique_id]
      [] type = "jobs" ->
            [user |-> o.user, state |-> enum_to_string(TABLE.JOB_STATE, o.state),
             runner |-> o.runner, deployment |-> o.deployment, forge_id |-> o.forge_id,
             pipeline |-> o.pipeline, cim_refreshed_at |-> o.cim_refreshed_at]
      [] type = "job_artifacts" ->
            [state |-> enum_to_string(TABLE.ARTIFACT_STATE, o.state),
             kind |-> as_str(o.kind),
             expire_at |-> artifact_expiration_to_string(o.expire_at),
             unique_id |-> o.unique_id, job |-> o.job]
      [] type = "merge_requests" ->
            [source_project |-> o.source_project, target_project |-> o.target_project,
             forge_id |-> o.forge_id,
             state |-> enum_to_string(TABLE.MERGE_REQUEST_STATUS, o.state),
             author |-> o.author, cim_refreshed_at |-> o.cim_refreshed_at]
      [] type = "pipelines" ->
            [project |-> o.project, schedule |-> o.schedule,
             parent_pipeline |-> o.parent_pipeline, merge_request |-> o.merge_request,
             user |-> o.user, status |-> enum_to_string(TABLE.PIPELINE_STATUS, o.status),
             forge_id |-> o.forge_id, cim_refreshed_at |-> o.cim_refreshed_at]
      [] type = "pipeline_schedules" ->
            [project |-> o.project, owner |-> o.owner, forge_id |-> o.forge_id,
             cim_refreshed_at |-> o.cim_refreshed_at]
      [] type = "projects" ->
            [forge_id |-> o.forge_id, instance |-> o.instance,
             cim_refreshed_at |-> o.cim_refreshed_at]
      [] type = "runners" -> OtherJson_convert_to_json(o)
      [] type = "runner_hosts" -> OtherJson_convert_to_json(o)
      [] type = "users" -> OtherJson_convert_to_json(o)

\* The record create_from_json builds once the string en of its enumeration
\* was read: the error of the enumeration, or the record.
Built(en, o) == IF en.ok THEN Success(o) ELSE en

\* JsonConvert::create_from_json of each type
create_from_json(type, j) ==
    CASE type = "deployments" ->
            Built(enum_from_string(TABLE.DEPLOYMENT_STATUS, j.status),
                  [pipeline |-> j.pipeline, environment |-> j.environment,
                   forge_id |-> j.forge_id,
                   status |-> enum_from_string(TABLE.DEPLOYMENT_STATUS, j.status).value,
                   cim_refreshed_at |-> j.cim_refreshed_at])
      [] type = "environments" ->
            Built(enum_from_string(TABLE.ENVIRONMENT_STATE, j.state),
                  [external_url |-> "",
                   state |-> enum_from_string(TABLE.ENVIRONMENT_STATE, j.state).value,
                   forge_id |-> j.forge_id, project |-> j.project,
                   cim_refreshed_at |-> j.cim_refreshed_at])
      [] type = "instances" -> Success([unique_id |-> j.unique_id])
      [] type = "jobs" ->
            Built(enum_from_string(TABLE.JOB_STATE, j.state),
                  [user |-> j.user,
                   state |-> enum_from_string(TABLE.JOB_STATE, j.state).value,
                   runner |-> j.runner, deployment |-> j.deployment,
                   forge_id |-> j.forge_id, pipeline |-> j.pipeline,
                   cim_refreshed_at |-> j.cim_refreshed_at])
      [] type = "job_artifacts" ->
            IF parse(j.kind) = <<>> THEN Failure(VecStoreError("InvalidEnumString", j.kind))
            ELSE IF ~enum_from_string(TABLE.ARTIFACT_STATE, j.state).ok
            THEN enum_from_string(TABLE.ARTIFACT_STATE, j.state)
            ELSE Built(artifact_expiration_from_string(j.expire_at),
                       [state |-> enum_from_string(TABLE.ARTIFACT_STATE, j.state).value,
                        kind |-> parse(j.kind)[1],
                        expire_at |-> artifact_expiration_from_string(j.expire_at).value,
                        unique_id |-> j.unique_id, job |-> j.job])
      [] type = "merge_requests" ->
            Built(enum_from_string(TABLE.MERGE_REQUEST_STATUS, j.state),
                  [source_project |-> j.source_project,
                   target_project |-> j.target_project, forge_id |-> j.forge_id,
                   state |-> enum_from_string(TABLE.MERGE_REQUEST_STATUS, j.state).value,
                   author |-> j.author, cim_refreshed_at |-> j.cim_refreshed_at])
      [] type = "pipelines" ->
            Built(enum_from_string(TABLE.PIPELINE_STATUS, j.status),
                  [project |-> j.project, schedule |-> j.schedule,
                   parent_pipeline |-> j.parent_pipeline,
                   merge_request |-> j.merge_request, user |-> j.user,
                   status |-> enum_from_string(TABLE.PIPELINE_STATUS, j.status).value,
                   forge_id |-> j.forge_id, cim_refreshed_at |-> j.cim_refreshed_at])
      [] type = "pipeline_schedules" ->
            Success([project |-> j.project, owner |-> j.owner, forge_id |-> j.forge_id,
                     cim_refreshed_at |-> j.cim_refreshed_at])
      [] type = "projects" ->
            Success([forge_id |-> j.forge_id, instance |-> j.instance,
                     cim_refreshed_at |-> j.cim_refreshed_at])
      [] type = "runners" -> OtherJson_create_from_json(j)
      [] type = "runner_hosts" -> OtherJson_create_from_json(j)
      [] type = "users" -> OtherJson_create_from_json(j)

\* A reference to the record idx of the type target; an optional reference.
Ref(target, idx) == <<[target |-> target, idx |-> idx]>>
OptRef(target, idx) == IF idx = NONE THEN <<>> ELSE Ref(target, idx)

\* The references validate_indices checks on a record of each type, in the
\* order in which it checks them.
References(type, o) ==
    CASE type = "deployments" ->
            Ref("pipelines", o.pipeline) \o Ref("environments", o.environment)
      [] type = "environments" -> Ref("projects", o.project)
      [] type = "jobs" ->
            Ref("pipelines", o.pipeline) \o Ref("users", o.user)
                \o OptRef("runners", o.runner) \o OptRef("deployments", o.deployment)
      [] type = "job_artifacts" -> Ref("jobs", o.job)
      [] type = "merge_requests" ->
            Ref("projects", o.source_project) \o Ref("projects", o.target_project)
                \o Ref("users", o.author)
      [] type = "pipelines" ->
            Ref("projects", o.project) \o OptRef("pipeline_schedules", o.schedule)
                \o OptRef("pipelines", o.parent_pipeline)
                \o OptRef("merge_requests", o.merge_request) \o OptRef("users", o.user)
      [] type = "pipeline_schedules" ->
            Ref("projects", o.project) \o Ref("users", o.owner)
      [] type = "projects" -> Ref("instances", o.instance)
      [] type = "runners" ->
            Ref("instances", o.instance) \o OptRef("runner_hosts", o.runner_host)
                \o [k \in 1..Len(o.projects) |-> [target |-> "projects", idx |-> o.projects[k]]]
      [] type = "users" -> Ref("instances", o.instance)
      [] OTHER -> <<>>

\* validate_index
validate_index(from_type, from_index, st, ref) ==
    IF Len(st[ref.target]) < ref.idx
    THEN <<MissingIndex(typename(ref.target), ref.idx, typename(from_type), from_index)>>
    ELSE <<>>

\* JsonStorable::validate_indices
validate_indices(type, o, self_index, st) ==
    FirstError([k \in 1..Len(References(type, o)) |->
                   validate_index(type, self_index, st, References(type, o)[k])])

\* VecStore::verify
verify(st, type) ==
    FirstError([i \in 1..Len(st[type]) |-> validate_indices(type, st[type][i], i - 1, st)])

\* vecindex.json
LATEST_VERSION == 0

\* An empty directory: no vecindex.json, no <i>.json in any subdirectory.
EmptyDir == [index |-> <<>>, files |-> [t \in {Types[k] : k \in 1..Len(Types)} |-> <<>>]]

\* VecStore::persist: <i>.json is written for every object; files of higher
\* number stay as they are.
persist(files, objects, type) ==
    [i \in 1..(IF Len(objects) > Len(files) THEN Len(objects) ELSE Len(files)) |->
        IF i <= Len(objects) THEN convert_to_json(type, objects[i]) ELSE files[i]]

\* VecStore::store
VecStore_store(dir, st) ==
    [index |-> <<[version |-> LATEST_VERSION,
                  counts |-> [t \in DOMAIN dir.files |-> Len(st[t])]]>>,
     files |-> [t \in DOMAIN dir.files |-> persist(dir.files[t], st[t], t)]]

\* A file that File::create has made or truncated and nothing was written to.
EmptyFile == [empty |-> TRUE]

\* VecStore::restore
restore(files, n, type) ==
    IF n > Len(files) THEN Failure(VecStoreError("Io", 0))
    ELSE LET read == [i \in 1..n |->
                         IF files[i] = EmptyFile THEN Failure(VecStoreError("Json", 0))
                         ELSE create_from_json(type, files[i])]
             errs == FirstError([i \in 1..n |->
                                    IF read[i].ok THEN <<>> ELSE <<read[i].error>>])
         IN IF errs # <<>> THEN Failure(errs[1])
            ELSE Success([i \in 1..n |-> read[i].value])

\* VecStore::load
load(dir) ==
    IF dir.index = <<>> THEN Failure(VecStoreError("Io", 0))
    ELSE IF dir.index[1] = EmptyFile THEN Failure(VecStoreError("Json", 0))
    ELSE IF dir.index[1].version # LATEST_VERSION
    THEN Failure(VecStoreError("UnsupportedVersion", dir.index[1].version))
    ELSE LET counts == dir.index[1].counts
             restored == [t \in DOMAIN dir.files |-> restore(dir.files[t], counts[t], t)]
             errs == FirstError([k \in 1..Len(Types) |->
                                    IF restored[Types[k]].ok THEN <<>>
                                    ELSE <<restored[Types[k]].error>>])
             st == [t \in DOMAIN dir.files |-> restored[t].value]
         IN IF errs # <<>> THEN Failure(errs[1])
            ELSE IF FirstError([k \in 1..Len(Types) |-> verify(st, Types[k])]) # <<>>
            THEN Failure(FirstError([k \in 1..Len(Types) |-> verify(st, Types[k])])[1])
            ELSE Success(st)

\* ArtifactKind: every variant, the parameterised ones with a plain text and
\* with a text that ends in a parenthesis
Kinds ==
    {Kind(tag, <<>>) : tag \in {"JobLog", "Archive", "JUnit", "Annotations"}}
        \cup {Kind(tag, text) : tag \in {"ArchiveFile", "Custom"},
                                text \in {<<"a">>, <<"a", ")">>}}

\* ArtifactExpiration: every variant
Expirations == {Expiration("Unknown", 0), Expiration("Never", 0), Expiration("At", Now)}

\* A populated store: one record of each type that can refer to the others,
\* with an artifact of the kind kind that expires as expire_at says and an
\* environment at external_url.
Populated(kind, expire_at, external_url) ==
    [deployments |-> <<[pipeline |-> 0, environment |-> 0, forge_id |-> 1,
                        status |-> "Success", cim_refreshed_at |-> Now]>>,
     environments |-> <<[external_url |-> external_url, state |-> "Available",
                         forge_id |-> 1, project |-> 0, cim_refreshed_at |-> Now]>>,
     instances |-> <<[unique_id |-> 0]>>,
     jobs |-> <<[user |-> 0, state |-> "Success", runner |-> 0, deployment |-> NONE,
                 forge_id |-> 1, pipeline |-> 0, cim_refreshed_at |-> Now]>>,
     job_artifacts |-> <<[state |-> "Present", kind |-> kind, expire_at |-> expire_at,
                          unique_id |-> 1, job |-> 0]>>,
     merge_requests |-> <<[source_project |-> 0, target_project |-> 0, forge_id |-> 1,
                           state |-> "Open", author |-> 0, cim_refreshed_at |-> Now]>>,
     pipelines |-> <<[project |-> 0, schedule |-> 0, parent_pipeline |-> NONE,
                      merge_request |-> NONE, user |-> 0, status |-> "Success",
                      forge_id |-> 1, cim_refreshed_at |-> Now]>>,
     pipeline_schedules |-> <<[project |-> 0, owner |-> 0, forge_id |-> 1,
                               cim_refreshed_at |-> Now]>>,
     projects |-> <<[forge_id |-> 1, instance |-> 0, cim_refreshed_at |-> Now]>>,
     runners |-> <<[forge_id |-> 1, instance |-> 0, runner_host |-> NONE,
                    projects |-> <<0>>, cim_refreshed_at |-> Now]>>,
     runner_hosts |-> <<>>,
     users |-> <<[forge_id |-> 1, instance |-> 0, cim_refreshed_at |-> Now]>>]

\* The highest index an edit of a file puts into a reference.
MaxIndex == 2

\* The references of the JSON form that hold an index: type, field.
IndexFields ==
    {<<"deployments", "pipeline">>, <<"deployments", "environment">>,
     <<"environments", "project">>, <<"jobs", "pipeline">>, <<"jobs", "user">>,
     <<"jobs", "runner">>, <<"jobs", "deployment">>, <<"job_artifacts", "job">>,
     <<"merge_requests", "source_project">>, <<"merge_requests", "target_project">>,
     <<"merge_requests", "author">>, <<"pipelines", "project">>,
     <<"pipelines", "schedule">>, <<"pipelines", "parent_pipeline">>,
     <<"pipelines", "merge_request">>, <<"pipelines", "user">>,
     <<"pipeline_schedules", "project">>, <<"pipeline_schedules", "owner">>,
     <<"projects", "instance">>, <<"runners", "instance">>,
     <<"runners", "runner_host">>, <<"users", "instance">>}

InitPersist ==
    \E kind \in Kinds, expire_at \in Expirations, external_url \in {"", "https://e"} :
        Called([fn |-> "VecStore", tampered |-> FALSE],
               Populated(kind, expire_at, external_url), EmptyDir)

\* VecStore::store(path, &store)
Store ==
    /\ call.fn = "VecStore"
    /\ disk.index = <<>>
    /\ disk' = VecStore_store(disk, storage)
    /\ UNCHANGED <<queue, pc, tokio_tasks, workers, count, storage, failures, explore, arcs, stored, call, ret>>

\* Somebody edits <0>.json of a type: the reference field holds idx now.
Tamper(type, field, idx) ==
    /\ call.fn = "VecStore"
    /\ disk.index # <<>>
    /\ ret = <<>>
    /\ ~call.tampered
    /\ disk.files[type] # <<>>
    /\ disk' = [disk EXCEPT !.files[type][1][field] = idx]
    /\ call' = [call EXCEPT !.tampered = TRUE]
    /\ UNCHANGED <<queue, pc, tokio_tasks, workers, count, storage, failures, explore, arcs, stored, ret>>

\* VecStore::load(path)
Load ==
    /\ call.fn = "VecStore"
    /\ disk.index # <<>>
    /\ ret = <<>>
    /\ ret' = <<load(disk)>>
    /\ UNCHANGED <<queue, pc, tokio_tasks, workers, count, storage, failures, explore, arcs, stored, call, disk>>

NextPersist ==
    \/ Store
    \/ \E tf \in IndexFields, idx \in 0..MaxIndex : Tamper(tf[1], tf[2], idx)
    \/ Load

SpecPersist == InitPersist /\ [][NextPersist]_vars

----------------------------------------------------------------------------
(* migrate::objects: migrate_object_store *)

\* MigrationError: its variant, the type of the index and the index
MigrationError(kind, type, index) == [kind |-> kind, type |-> type, index |-> index]

\* IndexMap::get: the sink index of a source index, DanglingSourceIndex when
\* the map has none. A map is a function from source to sink indices.
IndexMap_get(imap, type, key) ==
    IF key \in DOMAIN imap
    THEN Success(imap[key])
    ELSE Failure(MigrationError("DanglingSourceIndex", type, key))

\* IndexMap::entry: the entry of key when it is Entry::Occupied, and
\* DuplicateSourceIndex when it is vacant.
IndexMap_entry(imap, type, key) ==
    IF key \in DOMAIN imap
    THEN Success(key)
    ELSE Failure(MigrationError("DuplicateSourceIndex", type, key))

\* The Migrations migrate_object_store runs, in its order, each with the
\* references it translates (field, type referred to) in the order of its
\* IndexMap::get calls. Jobs and job artifacts have no Migration.
Migrations ==
    <<[type |-> "instances", refs |-> <<>>],
      [type |-> "runner_hosts", refs |-> <<>>],
      [type |-> "users", refs |-> <<<<"instance", "instances">>>>],
      [type |-> "projects", refs |-> <<<<"instance", "instances">>>>],
      [type |-> "runners",
       refs |-> <<<<"instance", "instances">>, <<"projects", "projects">>,
                  <<"runner_host", "runner_hosts">>>>],
      [type |-> "merge_requests",
       refs |-> <<<<"source_project", "projects">>, <<"target_project", "projects">>,
                  <<"author", "users">>>>],
      [type |-> "pipeline_schedules",
       refs |-> <<<<"project", "projects">>, <<"owner", "users">>>>],
      [type |-> "pipelines",
       refs |-> <<<<"project", "projects">>, <<"schedule", "pipeline_schedules">>,
                  <<"parent_pipeline", "pipelines">>,
                  <<"merge_request", "merge_requests">>, <<"user", "users">>>>],
      [type |-> "environments", refs |-> <<<<"project", "projects">>>>],
      [type |-> "deployments",
       refs |-> <<<<"pipeline", "pipelines">>, <<"environment", "environments">>>>]>>

\* The record a Migration builds for the sink from data: every field copied,
\* every reference translated through the map of its type; the first
\* reference without a sink index is the error.
new_data(m, data, maps) ==
    LET keys(r) == IF r[1] = "projects" THEN data.projects
                   ELSE IF data[r[1]] = NONE THEN <<>> ELSE <<data[r[1]]>>
        got(r, j) == IndexMap_get(maps[r[2]], r[2], keys(r)[j])
        bad == {p \in (1..Len(m.refs)) \X (1..MaxIndex + 1) :
                    /\ p[2] <= Len(keys(m.refs[p[1]]))
                    /\ ~got(m.refs[p[1]], p[2]).ok}
        first == CHOOSE p \in bad :
                    \A q \in bad : p[1] < q[1] \/ (p[1] = q[1] /\ p[2] <= q[2])
        ref(f) == m.refs[CHOOSE k \in 1..Len(m.refs) : m.refs[k][1] = f]
    IN  IF bad # {}
        THEN got(m.refs[first[1]], first[2])
        ELSE Success([f \in DOMAIN data |->
                 IF \E k \in 1..Len(m.refs) : m.refs[k][1] = f
                 THEN IF f = "projects"
                      THEN [j \in 1..Len(data.projects) |-> got(ref(f), j).value]
                      ELSE IF data[f] = NONE THEN NONE ELSE got(ref(f), 1).value
                 ELSE data[f]])

RECURSIVE migrate(_, _, _, _)
\* Migration::migrate of m over the source indices todo, st being the sink,
\* the index maps and PipelineMigration's with_missing_parent. entry comes
\* first, then get_data; a pipeline whose parent has no sink index yet puts
\* the parent's index aside and is skipped; what was put aside is inspected
\* when todo is drained. Entry::or_insert on an occupied entry inserts
\* nothing.
migrate(m, source, st, todo) ==
    IF todo = <<>>
    THEN IF st.with_missing_parent = {}
         THEN Success(st)
         ELSE LET idx == CHOOSE i \in st.with_missing_parent :
                             \A j \in st.with_missing_parent : i <= j
              IN  migrate(m, source,
                          [st EXCEPT !.with_missing_parent = @ \ {idx}], <<idx>>)
    ELSE LET idx == Head(todo)
             entry == IndexMap_entry(st.maps[m.type], m.type, idx)
             data == lookup(source[m.type], idx)
             new == new_data(m, data[1], st.maps)
         IN  IF ~entry.ok THEN entry
             ELSE IF data = <<>>
             THEN Failure(MigrationError("MissingData", m.type, idx))
             ELSE IF /\ m.type = "pipelines"
                     /\ data[1].parent_pipeline # NONE
                     /\ data[1].parent_pipeline \notin DOMAIN st.maps.pipelines
             THEN migrate(m, source,
                          [st EXCEPT !.with_missing_parent =
                                         @ \cup {data[1].parent_pipeline}],
                          Tail(todo))
             ELSE IF ~new.ok THEN new
             ELSE migrate(m, source,
                          [st EXCEPT !.sink[m.type] = store(@, new.value)],
                          Tail(todo))

RECURSIVE migrate_from(_, _, _)
\* migrate_object_store from its k-th Migration on: each one runs over
\* source.all_indices() and the first error ends the migration.
migrate_from(k, source, st) ==
    IF k > Len(Migrations) THEN Success(st)
    ELSE LET done == migrate(Migrations[k], source, st,
                             [i \in 1..Len(source[Migrations[k].type]) |-> i - 1])
         IN  IF done.ok THEN migrate_from(k + 1, source, done.value) ELSE done

\* A store without records, as VecLookup::default()
EmptyStore == [t \in {Types[k] : k \in 1..Len(Types)} |-> <<>>]

\* migrate_object_store: the index maps start empty
migrate_object_store(source, sink) ==
    migrate_from(1, source,
                 [sink |-> sink, with_missing_parent |-> {},
                  maps |-> [t \in DOMAIN EmptyStore |-> [i \in {} |-> 0]]])

\* The order in which the types may refer to each other
Topological ==
    <<"instances", "runner_hosts", "users", "projects", "runners", "merge_requests",
      "pipeline_schedules", "pipelines", "environments", "deployments", "jobs",
      "job_artifacts">>

\* The source stores: the populated stores, cut after the n first types in
\* topological order, so that every reference has its target.
Sources ==
    {[t \in DOMAIN EmptyStore |->
         IF \E k \in 1..n : Topological[k] = t
         THEN Populated(kind, expire_at, external_url)[t] ELSE <<>>] :
        n \in 0..Len(Topological), kind \in Kinds, expire_at \in Expirations,
        external_url \in {"", "https://e"}}

InitMigrate ==
    \E source \in Sources :
        Called([fn |-> "migrate_object_store", source |-> source], NewStorage, <<>>)

\* migrate_object_store(source, &mut VecLookup::default())
Migrate ==
    /\ call.fn = "migrate_object_store"
    /\ ret = <<>>
    /\ ret' = <<migrate_object_store(call.source, EmptyStore)>>
    /\ UNCHANGED <<queue, pc, tokio_tasks, workers, count, storage, failures,
                   explore, arcs, stored, call, disk>>

NextMigrate == Migrate

SpecMigrate == InitMigrate /\ [][NextMigrate]_vars

----------------------------------------------------------------------------
(* blob: BlobReference and the Filesystem blob store *)

\* Blob: the byte payloads
Payloads == {<<>>, <<0>>, <<1>>}

\* ContentHash::hash_blob: the lower-case hexadecimal digest of data, one
\* character per element
hash_blob(algo, data) ==
    CASE algo = "sha256" /\ data = <<>> ->
           <<"e", "3", "b", "0", "c", "4", "4", "2", "9", "8", "f", "c", "1", "c", "1", "4",
             "9", "a", "f", "b", "f", "4", "c", "8", "9", "9", "6", "f", "b", "9", "2", "4",
             "2", "7", "a", "e", "4", "1", "e", "4", "6", "4", "9", "b", "9", "3", "4", "c",
             "a", "4", "9", "5", "9", "9", "1", "b", "7", "8", "5", "2", "b", "8", "5", "5">>
      [] algo = "sha256" /\ data = <<0>> ->
           <<"6", "e", "3", "4", "0", "b", "9", "c", "f", "f", "b", "3", "7", "a", "9", "8",
             "9", "c", "a", "5", "4", "4", "e", "6", "b", "b", "7", "8", "0", "a", "2", "c",
             "7", "8", "9", "0", "1", "d", "3", "f", "b", "3", "3", "7", "3", "8", "7", "6",
             "8", "5", "1", "1", "a", "3", "0", "6", "1", "7", "a", "f", "a", "0", "1", "d">>
      [] algo = "sha256" /\ data = <<1>> ->
           <<"4", "b", "f", "5", "1", "2", "2", "f", "3", "4", "4", "5", "5", "4", "c", "5",
             "3", "b", "d", "e", "2", "e", "b", "b", "8", "c", "d", "2", "b", "7", "e", "3",
             "d", "1", "6", "0", "0", "a", "d", "6", "3", "1", "c", "3", "8", "5", "a", "5",
             "d", "7", "c", "c", "e", "2", "3", "c", "7", "7", "8", "5", "4", "5", "9", "a">>
      [] algo = "sha512" /\ data = <<>> ->
           <<"c", "f", "8", "3", "e", "1", "3", "5", "7", "e", "e", "f", "b", "8", "b", "d",
             "f", "1", "5", "4", "2", "8", "5", "0", "d", "6", "6", "d", "8", "0", "0", "7",
             "d", "6", "2", "0", "e", "4", "0", "5", "0", "b", "5", "7", "1", "5", "d", "c",
             "8", "3", "f", "4", "a", "9", "2", "1", "d", "3", "6", "c", "e", "9", "c", "e",
             "4", "7", "d", "0", "d", "1", "3", "c", "5", "d", "8", "5", "f", "2", "b", "0",
             "f", "f", "8", "3", "1", "8", "d", "2", "8", "7", "7", "e", "e", "c", "2", "f",
             "6", "3", "b", "9", "3", "1", "b", "d", "4", "7", "4", "1", "7", "a", "8", "1",
             "a", "5", "3", "8", "3", "2", "7", "a", "f", "9", "2", "7", "d", "a", "3", "e">>
      [] algo = "sha512" /\ data = <<0>> ->
           <<"b", "8", "2", "4", "4", "d", "0", "2", "8", "9", "8", "1", "d", "6", "9", "3",
             "a", "f", "7", "b", "4", "5", "6", "a", "f", "8", "e", "f", "a", "4", "c", "a",
             "d", "6", "3", "d", "2", "8", "2", "e", "1", "9", "f", "f", "1", "4", "9", "4",
             "2", "c", "2", "4", "6", "e", "5", "0", "d", "9", "3", "5", "1", "d", "2", "2",
             "7", "0", "4", "a", "8", "0", "2", "a", "7", "1", "c", "3", "5", "8", "0", "b",
             "6", "3", "7", "0", "d", "e", "4", "c", "e", "b", "2", "9", "3", "c", "3", "2",
             "4", "a", "8", "4", "2", "3", "3", "4", "2", "5", "5", "7", "d", "4", "e", "5",
             "c", "3", "8", "4", "3", "8", "f", "0", "e", "3", "6", "9", "1", "0", "e", "e">>
      [] algo = "sha512" /\ data = <<1>> ->
           <<"7", "b", "5", "4", "b", "6", "6", "8", "3", "6", "c", "1", "f", "b", "d", "d",
             "1", "3", "d", "2", "4", "4", "1", "d", "9", "e", "1", "4", "3", "4", "d", "c",
             "6", "2", "c", "a", "6", "7", "7", "f", "b", "6", "8", "f", "5", "f", "e", "6",
             "6", "a", "4", "6", "4", "b", "a", "a", "d", "e", "c", "d", "b", "d", "0", "0",
             "5", "7", "6", "f", "8", "d", "6", "b", "5", "a", "c", "3", "b", "c", "c", "8",
             "0", "8", "4", "4", "b", "7", "d", "5", "0", "b", "1", "c", "c", "6", "6", "0",
             "3", "4", "4", "4", "b", "b", "e", "7", "c", "f", "c", "f", "8", "f", "c", "0",
             "a", "a", "1", "e", "e", "3", "c", "6", "3", "6", "d", "9", "e", "3", "3", "9">>

\* BlobReference::for_blob
for_blob(blob, algo) == [algo |-> algo, hash |-> hash_blob(algo, blob)]

\* usize::MAX, scaled down: every sharding and every length of the model
\* is below it, as every length of a string is below the real one.
MaxUsize == 255

\* A panic of the thread, in place of the value of the call that panicked
panic == <<>>

\* Sharding::shard_str in a build with (debug) or without (release)
\* overflow checks. breaks.iter().sum() panics on overflow with the checks
\* and wraps without them; a slice s[..n] panics when n is beyond the end
\* of s.
shard_str_build(overflow_checks, breaks, s) ==
    LET total == breaks[1] + breaks[2] + breaks[3]
        s1 == SubSeq(s, breaks[1] + 1, Len(s))
        s2 == SubSeq(s1, breaks[2] + 1, Len(s1))
        s3 == SubSeq(s2, breaks[3] + 1, Len(s2))
    IN  IF overflow_checks /\ total > MaxUsize THEN panic
        ELSE IF total % (MaxUsize + 1) > Len(s) THEN <<s, <<>>, <<>>, <<>>>>
        ELSE IF breaks[1] > 0
        THEN IF breaks[1] > Len(s) THEN panic
             ELSE IF breaks[2] > 0
             THEN IF breaks[2] > Len(s1) THEN panic
                  ELSE IF breaks[3] > 0
                  THEN IF breaks[3] > Len(s2) THEN panic
                       ELSE <<SubSeq(s, 1, breaks[1]), SubSeq(s1, 1, breaks[2]),
                              SubSeq(s2, 1, breaks[3]), s3>>
                  ELSE <<SubSeq(s, 1, breaks[1]), SubSeq(s1, 1, breaks[2]), s2, <<>>>>
             ELSE <<SubSeq(s, 1, breaks[1]), s1, <<>>, <<>>>>
        ELSE <<<<>>, <<>>, <<>>, <<>>>>

\* Sharding::shard_str where the sum of the breaks does not overflow, as in
\* every Filesystem of the blob store below: both builds agree there.
shard_str(breaks, s) == shard_str_build(FALSE, breaks, s)

\* Filesystem::path_for, below Filesystem::path: the name of the algorithm,
\* then the shards of the hash that are not empty
path_for(fs, blob) ==
    <<blob.algo>> \o SelectSeq(shard_str(fs.sharding, blob.hash), LAMBDA shard : shard # <<>>)

\* From<FilesystemError> for BlobPersistenceError, of the FilesystemError
\* variant whose io::Error has the ErrorKind source
BlobPersistenceError(variant, source) ==
    IF variant = "NoParent" THEN "Other"
    ELSE CASE source = "NotFound" -> "NotFound"
           [] source = "PermissionDenied" -> "Auth"
           [] OTHER -> "Other"

\* The outcome of an operation of the store: its Result and the files it
\* leaves, a file being a path and the bytes it holds.
Outcome(result, files) == [result |-> result, files |-> files]

\* The files with the file at path holding data
Written(files, path, data) ==
    {f \in files : f.path # path} \cup {[path |-> path, data |-> data]}

\* No I/O failure, and the failures the operating system can answer a step
\* of an operation with: the step, the ErrorKind, and for write_all the
\* number of bytes written before it.
NoFault == [step |-> "none", kind |-> "none", written |-> 0]
MaxWritten == 0
Faults(steps) ==
    {NoFault} \cup
    [step : steps, kind : {"PermissionDenied", "StorageFull"},
     written : IF "write_all" \in steps THEN 0..MaxWritten ELSE {0}]

\* BlobPersistence::store for Filesystem. File::create truncates the file;
\* write_all of no bytes does nothing.
blob_store(fs, files, blob, fault) ==
    LET new_ref == for_blob(blob, fs.algo)
        path == path_for(fs, new_ref)
    IN  IF Len(path) = 0
        THEN Outcome(Failure(BlobPersistenceError("NoParent", "none")), files)
        ELSE IF fault.step = "create_dir_all"
        THEN Outcome(Failure(BlobPersistenceError("CannotCreate", fault.kind)), files)
        ELSE IF fault.step = "create"
        THEN Outcome(Failure(BlobPersistenceError("Open", fault.kind)), files)
        ELSE IF fault.step = "write_all" /\ fault.written < Len(blob)
        THEN Outcome(Failure(BlobPersistenceError("Write", fault.kind)),
                     Written(files, path, SubSeq(blob, 1, fault.written)))
        ELSE Outcome(Success(new_ref), Written(files, path, blob))

\* BlobPersistence::contains for Filesystem: Path::exists
blob_contains(fs, files, blob) ==
    Outcome(Success(\E f \in files : f.path = path_for(fs, blob)), files)

\* BlobPersistence::fetch for Filesystem
blob_fetch(fs, files, blob, fault) ==
    LET path == path_for(fs, blob)
    IN  IF fault.step = "open"
        THEN Outcome(Failure(BlobPersistenceError("Open", fault.kind)), files)
        ELSE IF ~\E f \in files : f.path = path
        THEN Outcome(Failure(BlobPersistenceError("Open", "NotFound")), files)
        ELSE IF fault.step = "read_to_end"
        THEN Outcome(Failure(BlobPersistenceError("Read", fault.kind)), files)
        ELSE Outcome(Success((CHOOSE f \in files : f.path = path).data), files)

\* A plausible slip of BlobPersistence::verify: a blob that can be fetched
\* is valid.
blob_verify_fetched(fs, files, blob, fault) ==
    LET data == blob_fetch(fs, files, blob, fault)
    IN  IF ~data.result.ok
        THEN Outcome(Failure([kind |-> "Inner", source |-> data.result.error]), files)
        ELSE Outcome(Success(<<>>), files)

\* BlobPersistence::verify
blob_verify(fs, files, blob, fault) ==
    LET data == blob_fetch(fs, files, blob, fault)
        new_ref == for_blob(data.result.value, blob.algo)
    IN  IF ~data.result.ok
        THEN Outcome(Failure([kind |-> "Inner", source |-> data.result.error]), files)
        ELSE IF new_ref = blob THEN Outcome(Success(<<>>), files)
        ELSE Outcome(Failure([kind |-> "Invalid", actual |-> new_ref]), files)

\* A plausible slip of BlobPersistence::erase: erasing what is not there
\* succeeds.
blob_erase_absent(fs, files, blob, fault) ==
    IF fault.step = "remove_file"
    THEN Outcome(Failure(BlobPersistenceError("Delete", fault.kind)), files)
    ELSE Outcome(Success(<<>>), {f \in files : f.path # path_for(fs, blob)})

\* BlobPersistence::erase for Filesystem
blob_erase(fs, files, blob, fault) ==
    LET path == path_for(fs, blob)
    IN  IF fault.step = "remove_file"
        THEN Outcome(Failure(BlobPersistenceError("Delete", fault.kind)), files)
        ELSE IF ~\E f \in files : f.path = path
        THEN Outcome(Failure(BlobPersistenceError("Delete", "NotFound")), files)
        ELSE Outcome(Success(<<>>), {f \in files : f.path # path})

\* The references a caller can hold: of every payload, by either algorithm
BlobReferences == {for_blob(blob, algo) : blob \in Payloads, algo \in {"sha256", "sha512"}}

\* Filesystem::create on an empty directory, by either algorithm, with
\* Sharding::default(), Sharding::once(1) or breaks longer than a hash
InitBlob ==
    \E algo \in {"sha256", "sha512"},
       sharding \in {<<2, 2, 0>>, <<1, 0, 0>>, <<100, 100, 0>>} :
        Called([fn |-> "Filesystem", algo |-> algo, sharding |-> sharding], NewStorage, {})

\* An operation op of the store on arg under fault, with outcome out
Operation(op, arg, fault, out) ==
    /\ call.fn = "Filesystem"
    /\ ret' = <<[op |-> op, arg |-> arg, fault |-> fault, result |-> out.result]>>
    /\ disk' = out.files
    /\ UNCHANGED <<queue, pc, tokio_tasks, workers, count, storage, failures,
                   explore, arcs, stored, call>>

BlobStore(blob, fault) == Operation("store", blob, fault, blob_store(call, disk, blob, fault))

BlobContains(blob) == Operation("contains", blob, NoFault, blob_contains(call, disk, blob))

BlobFetch(blob, fault) == Operation("fetch", blob, fault, blob_fetch(call, disk, blob, fault))

BlobVerify(blob, fault) == Operation("verify", blob, fault, blob_verify(call, disk, blob, fault))

BlobErase(blob, fault) == Operation("erase", blob, fault, blob_erase(call, disk, blob, fault))

\* Something else than the store changes the bytes of a stored file.
ChangeFile(path, data) ==
    /\ call.fn = "Filesystem"
    /\ \E f \in disk : f.path = path /\ f.data # data
    /\ disk' = Written(disk, path, data)
    /\ ret' = <<>>
    /\ UNCHANGED <<queue, pc, tokio_tasks, workers, count, storage, failures,
                   explore, arcs, stored, call>>

NextBlob ==
    \/ \E blob \in Payloads, fault \in Faults({"create_dir_all", "create", "write_all"}) :
            BlobStore(blob, fault)
    \/ \E blob \in BlobReferences : BlobContains(blob)
    \/ \E blob \in BlobReferences, fault \in Faults({"open", "read_to_end"}) :
            BlobFetch(blob, fault)
    \/ \E blob \in BlobReferences, fault \in Faults({"open", "read_to_end"}) :
            BlobVerify(blob, fault)
    \/ \E blob \in BlobReferences, fault \in Faults({"remove_file"}) : BlobErase(blob, fault)
    \/ \E f \in disk, data \in Payloads : ChangeFile(f.path, data)

SpecBlob == InitBlob /\ [][NextBlob]_vars

----------------------------------------------------------------------------
(* blob::filesystem: Sharding and Filesystem::open *)

\* MAX_BREAKS
MAX_BREAKS == 3

\* Sharding::from_slice: the breaks, filled up with 0
from_slice(slice) ==
    IF Len(slice) > MAX_BREAKS THEN Failure("TooLong")
    ELSE IF \E k \in 1..Len(slice) : slice[k] = 0 THEN Failure("ZeroBreaks")
    ELSE Success([k \in 1..MAX_BREAKS |-> IF k <= Len(slice) THEN slice[k] ELSE 0])

\* Sharding::to_vec: the breaks before the first 0
to_vec(breaks) ==
    SubSeq(breaks, 1,
           IF \E k \in 1..Len(breaks) : breaks[k] = 0
           THEN (CHOOSE k \in 1..Len(breaks) :
                     breaks[k] = 0 /\ \A j \in 1..(k - 1) : breaks[j] # 0) - 1
           ELSE Len(breaks))

\* Filesystem::open_impl on a directory whose configuration file, if there
\* is one, parses to conf: the Filesystem or the FilesystemError
open_impl(file) ==
    IF file = <<>> THEN Failure([kind |-> "Open", source |-> "NotFound"])
    ELSE LET conf == file[1]
             sharding == from_slice(conf.sharding)
         IN  IF conf.algorithm \notin {"sha256", "sha512"}
             THEN Failure([kind |-> "InvalidContentAlgorithm", source |-> conf.algorithm])
             ELSE IF ~sharding.ok
             THEN Failure([kind |-> "InvalidSharding", source |-> sharding.error])
             ELSE Success([algo |-> conf.algorithm, sharding |-> sharding.value])

\* The longest list of breaks and the longest hash of the calls below
MaxSlice == 4
MaxHash == 4

\* Every sequence of at most n elements of S
UpTo(S, n) == UNION {[1..k -> S] : k \in 0..n}

\* Sharding::once, twice and thrice of non-zero breaks, the largest usize
\* among them
Shardings ==
    {from_slice(slice).value :
        slice \in {sl \in UpTo({1, 2, MaxUsize}, MAX_BREAKS) : Len(sl) > 0}}

\* The calls: Filesystem::open on a directory without or with a
\* configuration file, and Sharding::shard_str on a string of hexadecimal
\* digits in either build
InitSharding ==
    \/ \E file \in {<<>>} \cup
                   {<<[algorithm |-> algorithm, sharding |-> sharding]>> :
                        algorithm \in {"sha256", "sha512", "md5"},
                        sharding \in UpTo({0, 1, 2}, MaxSlice)} :
           Called([fn |-> "open", file |-> file], NewStorage, <<>>)
    \/ \E breaks \in Shardings, s \in UpTo({"a", "b"}, MaxHash),
          overflow_checks \in BOOLEAN :
           Called([fn |-> "shard_str", breaks |-> breaks, s |-> s,
                   overflow_checks |-> overflow_checks], NewStorage, <<>>)

\* Filesystem::open(path)
FilesystemOpen ==
    /\ call.fn = "open"
    /\ ret = <<>>
    /\ ret' = <<open_impl(call.file)>>
    /\ UNCHANGED <<queue, pc, tokio_tasks, workers, count, storage, failures,
                   explore, arcs, stored, call, disk>>

\* sharding.shard_str(s)
ShardStr ==
    /\ call.fn = "shard_str"
    /\ ret = <<>>
    /\ ret' = <<shard_str_build(call.overflow_checks, call.breaks, call.s)>>
    /\ UNCHANGED <<queue, pc, tokio_tasks, workers, count, storage, failures,
                   explore, arcs, stored, call, disk>>

NextSharding == FilesystemOpen \/ ShardStr

SpecSharding == InitSharding /\ [][NextSharding]_vars

----------------------------------------------------------------------------
(* data::job_artifact: ArtifactKind::as_str and ArtifactKind::parse *)

\* The longest path or name of the calls below
MaxName == 3

\* The paths and names: a letter, a separator and the closing parenthesis
KindNames == UNION {[1..k -> {"a", "/", ")"}] : k \in 0..MaxName}

\* The calls: parse(&kind.as_str()) for every kind, and parse of the text
\* of a kind with an argument, written with both parentheses
InitKind ==
    \/ \E kind \in {Kind(tag, <<>>) : tag \in {"JobLog", "Archive", "JUnit", "Annotations"}}
                   \cup {Kind(tag, name) : tag \in {"ArchiveFile", "Custom"},
                                           name \in KindNames} :
           Called([fn |-> "as_str", kind |-> kind], NewStorage, <<>>)
    \/ \E literal \in {Literal.archive_file, Literal.custom}, name \in KindNames :
           Called([fn |-> "parse", literal |-> literal, name |-> name,
                   s |-> literal \o name \o <<")">>], NewStorage, <<>>)

\* ArtifactKind::parse(&kind.as_str())
ParseAsStr ==
    /\ call.fn = "as_str"
    /\ ret = <<>>
    /\ ret' = <<parse(as_str(call.kind))>>
    /\ UNCHANGED <<queue, pc, tokio_tasks, workers, count, storage, failures,
                   explore, arcs, stored, call, disk>>

\* ArtifactKind::parse(s)
Parse ==
    /\ call.fn = "parse"
    /\ ret = <<>>
    /\ ret' = <<parse(call.s)>>
    /\ UNCHANGED <<queue, pc, tokio_tasks, workers, count, storage, failures,
                   explore, arcs, stored, call, disk>>

NextKind == ParseAsStr \/ Parse

SpecKind == InitKind /\ [][NextKind]_vars

----------------------------------------------------------------------------
(* data: the entity builders (derive_builder) *)

\* The fields of every entity in the order of their declaration, each with
\* "required" when it has no #[builder(default)] and else with the
\* expression of its default
Fields ==
    [Deployment |->
        <<<<"pipeline", "required">>, <<"environment", "required">>,
          <<"forge_id", "required">>, <<"created_at", "required">>,
          <<"updated_at", "required">>, <<"finished_at", "Default::default()">>,
          <<"status", "required">>, <<"cim_fetched_at", "Utc::now()">>,
          <<"cim_refreshed_at", "Utc::now()">>>>,
     Environment |->
        <<<<"name", "required">>, <<"external_url", "Default::default()">>,
          <<"state", "required">>, <<"tier", "required">>, <<"forge_id", "required">>,
          <<"project", "required">>, <<"created_at", "required">>,
          <<"updated_at", "required">>, <<"auto_stop_at", "Default::default()">>,
          <<"cim_fetched_at", "Utc::now()">>, <<"cim_refreshed_at", "Utc::now()">>>>,
     Instance |->
        <<<<"unique_id", "required">>, <<"forge", "required">>, <<"url", "required">>>>,
     Job |->
        <<<<"name", "Default::default()">>, <<"stage", "Default::default()">>,
          <<"allow_failure", "Default::default()">>, <<"user", "required">>,
          <<"tags", "Default::default()">>, <<"variables", "Default::default()">>,
          <<"state", "required">>, <<"created_at", "required">>,
          <<"started_at", "Default::default()">>,
          <<"finished_at", "Default::default()">>,
          <<"erased_at", "Default::default()">>,
          <<"queued_duration", "Default::default()">>,
          <<"runner", "Default::default()">>, <<"deployment", "Default::default()">>,
          <<"forge_id", "required">>, <<"archived", "Default::default()">>,
          <<"url", "Default::default()">>, <<"pipeline", "required">>,
          <<"coverage", "Default::default()">>, <<"cim_fetched_at", "Utc::now()">>,
          <<"cim_refreshed_at", "Utc::now()">>>>,
     JobArtifact |->
        <<<<"state", "ArtifactState::Unknown">>, <<"kind", "required">>,
          <<"expire_at", "ArtifactExpiration::Unknown">>, <<"name", "required">>,
          <<"blob", "Default::default()">>, <<"size", "required">>,
          <<"unique_id", "required">>, <<"job", "required">>>>,
     MergeRequest |->
        <<<<"id", "required">>, <<"source_project", "required">>,
          <<"source_branch", "Default::default()">>, <<"sha", "Default::default()">>,
          <<"target_project", "required">>, <<"target_branch", "Default::default()">>,
          <<"forge_id", "required">>, <<"title", "Default::default()">>,
          <<"description", "Default::default()">>, <<"state", "required">>,
          <<"author", "required">>, <<"url", "required">>,
          <<"cim_fetched_at", "Utc::now()">>, <<"cim_refreshed_at", "Utc::now()">>>>,
     Pipeline |->
        <<<<"name", "Default::default()">>, <<"project", "required">>,
          <<"sha", "required">>, <<"previous_sha", "Default::default()">>,
          <<"refname", "Default::default()">>,
          <<"stable_refname", "Default::default()">>, <<"source", "required">>,
          <<"schedule", "Default::default()">>,
          <<"parent_pipeline", "Default::default()">>,
          <<"merge_request", "Default::default()">>,
          <<"variables", "Default::default()">>, <<"user", "Default::default()">>,
          <<"status", "required">>, <<"coverage", "Default::default()">>,
          <<"forge_id", "required">>, <<"url", "required">>,
          <<"archived", "Default::default()">>, <<"created_at", "required">>,
          <<"updated_at", "required">>, <<"started_at", "Default::default()">>,
          <<"finished_at", "Default::default()">>, <<"cim_fetched_at", "Utc::now()">>,
          <<"cim_refreshed_at", "Utc::now()">>>>,
     PipelineSchedule |->
        <<<<"name", "Default::default()">>, <<"project", "required">>,
          <<"ref_", "required">>, <<"variables", "Default::default()">>,
          <<"forge_id", "required">>, <<"created_at", "required">>,
          <<"updated_at", "required">>, <<"owner", "required">>,
          <<"active", "Default::default()">>, <<"next_run", "Default::default()">>,
          <<"cim_fetched_at", "Utc::now()">>, <<"cim_refreshed_at", "Utc::now()">>>>,
     Project |->
        <<<<"name", "Default::default()">>, <<"forge_id", "required">>,
          <<"url", "Default::default()">>, <<"instance", "required">>,
          <<"instance_path", "Default::default()">>,
          <<"cim_fetched_at", "Utc::now()">>, <<"cim_refreshed_at", "Utc::now()">>>>,
     Runner |->
        <<<<"description", "Default::default()">>, <<"runner_type", "required">>,
          <<"maximum_timeout", "Default::default()">>,
          <<"protection_level", "required">>,
          <<"implementation", "Default::default()">>,
          <<"version", "Default::default()">>, <<"revision", "Default::default()">>,
          <<"platform", "Default::default()">>,
          <<"architecture", "Default::default()">>, <<"tags", "Default::default()">>,
          <<"run_untagged", "Default::default()">>,
          <<"projects", "Default::default()">>, <<"forge_id", "required">>,
          <<"paused", "Default::default()">>, <<"shared", "Default::default()">>,
          <<"online", "Default::default()">>, <<"locked", "Default::default()">>,
          <<"contacted_at", "Default::default()">>,
          <<"maintenance_note", "Default::default()">>, <<"instance", "required">>,
          <<"runner_host", "Default::default()">>, <<"cim_fetched_at", "Utc::now()">>,
          <<"cim_refreshed_at", "Utc::now()">>>>,
     RunnerHost |->
        <<<<"os", "Default::default()">>, <<"os_version", "Default::default()">>,
          <<"name", "required">>, <<"management", "Default::default()">>,
          <<"location", "Default::default()">>,
          <<"estimated_cost_per_hour", "Default::default()">>,
          <<"unique_id", "required">>, <<"cim_fetched_at", "Utc::now()">>,
          <<"cim_refreshed_at", "Utc::now()">>>>,
     User |->
        <<<<"handle", "Default::default()">>, <<"name", "Default::default()">>,
          <<"email", "Default::default()">>, <<"avatar", "Default::default()">>,
          <<"forge_id", "required">>, <<"instance", "required">>,
          <<"cim_fetched_at", "Utc::now()">>, <<"cim_refreshed_at", "Utc::now()">>>>]

\* The entities
Entities == DOMAIN Fields

\* A plausible slip of build: the error names the first required field of
\* the entity, whichever is missing.
build_first(entity, set) ==
    LET fields == Fields[entity]
        first == CHOOSE k \in 1..Len(fields) :
                     /\ fields[k][2] = "required"
                     /\ \A j \in 1..(k - 1) : fields[j][2] # "required"
    IN  IF \E k \in 1..Len(fields) : fields[k][2] = "required" /\ fields[k][1] \notin set
        THEN Failure([kind |-> "UninitializedField", field |-> fields[first][1]])
        ELSE Success([k \in 1..Len(fields) |->
                         IF fields[k][1] \in set THEN "set" ELSE fields[k][2]])

\* <Entity>Builder::build after the setters of the fields in set: every
\* field in the order of declaration, a required one that was not set being
\* the error, and the value of every field else
build(entity, set) ==
    LET fields == Fields[entity]
        missing == {k \in 1..Len(fields) :
                        fields[k][2] = "required" /\ fields[k][1] \notin set}
    IN  IF missing # {}
        THEN Failure([kind |-> "UninitializedField",
                      field |-> fields[CHOOSE k \in missing :
                                           \A j \in missing : k <= j][1]])
        ELSE Success([k \in 1..Len(fields) |->
                         IF fields[k][1] \in set THEN "set" ELSE fields[k][2]])

\* The required fields of an entity
Required(entity) ==
    {Fields[entity][k][1] : k \in {j \in 1..Len(Fields[entity]) :
                                       Fields[entity][j][2] = "required"}}

\* The calls: a builder of every entity with any of its required fields set
InitBuilder ==
    \E entity \in Entities :
        \E set \in SUBSET Required(entity) :
            Called([fn |-> "build", entity |-> entity, set |-> set], NewStorage, <<>>)

\* <Entity>::builder() ... .build()
Build ==
    /\ call.fn = "build"
    /\ ret = <<>>
    /\ ret' = <<build(call.entity, call.set)>>
    /\ UNCHANGED <<queue, pc, tokio_tasks, workers, count, storage, failures,
                   explore, arcs, stored, call, disk>>

NextBuilder == Build

SpecBuilder == InitBuilder /\ [][NextBuilder]_vars

----------------------------------------------------------------------------
(* GitlabForge::new over a store that holds Instances *)

\* Instance
Instance(unique_id, forge, url) == [unique_id |-> unique_id, forge |-> forge, url |-> url]

\* A plausible slip of GitlabForge::new_impl: the Instance is stored without
\* a look at the ones the store holds.
new_impl_stored(url, instances) ==
    [instances |-> store(instances, Instance(Len(instances), "gitlab", url)),
     instance_idx |-> store_index(instances, Instance(Len(instances), "gitlab", url))]

\* GitlabForge::new_impl: the first Instance of the store with the url and
\* the forge "gitlab", else a new one with the number of Instances as its
\* unique_id, stored by Lookup::store. The Instances of the store afterwards
\* and GitlabForge::instance_idx.
new_impl(url, instances) ==
    LET found == {k \in 1..Len(instances) :
                      instances[k].url = url /\ instances[k].forge = "gitlab"}
        instance == Instance(Len(instances), "gitlab", url)
    IN  IF found # {}
        THEN [instances |-> instances,
              instance_idx |-> (CHOOSE k \in found : \A j \in found : k <= j) - 1]
        ELSE [instances |-> store(instances, instance),
              instance_idx |-> store_index(instances, instance)]

\* The most Instances of a store before the adapters, the most unique_id
\* among them, and the most constructions of an adapter
MaxInstances == 2
MaxUniqueId == 2
MaxConstructions == 3

\* The stores before the first adapter: Instances of this and of another
\* forge, no two with the same unique_id (I2) or the same forge and url (I3)
InstanceStores ==
    {instances \in UNION {[1..n -> {Instance(unique_id, forge, url) :
                                        unique_id \in 0..MaxUniqueId,
                                        forge \in {"gitlab", "github"},
                                        url \in {"a", "b"}}] : n \in 0..MaxInstances} :
        \A j, k \in 1..Len(instances) :
            j # k => /\ instances[j].unique_id # instances[k].unique_id
                     /\ <<instances[j].forge, instances[j].url>>
                            # <<instances[k].forge, instances[k].url>>}

InitInstance ==
    \E instances \in InstanceStores :
        Called([fn |-> "GitlabForge", constructions |-> 0],
               [instances |-> instances], <<>>)

\* GitlabForge::new(url, gitlab, storage), and into_storage for the next
GitlabForgeNew(url) ==
    /\ call.fn = "GitlabForge"
    /\ call.constructions < MaxConstructions
    /\ call' = [call EXCEPT !.constructions = @ + 1]
    /\ storage' = [instances |-> new_impl(url, storage.instances).instances]
    /\ ret' = <<[url |-> url,
                 instance_idx |-> new_impl(url, storage.instances).instance_idx]>>
    /\ UNCHANGED <<queue, pc, tokio_tasks, workers, count, failures,
                   explore, arcs, stored, disk>>

NextInstance == \E url \in {"a", "b", "c"} : GitlabForgeNew(url)

SpecInstance == InitInstance /\ [][NextInstance]_vars

----------------------------------------------------------------------------
(* Runs on a forge whose calls all succeed, under fair scheduling *)

\* The queues of the fair runs: nothing, or what SeqSeeds holds.
LiveSeeds == {<<>>} \cup SeqSeeds

\* Workers in flight at once in the fair runs.
MaxLiveInFlight == 2

\* Workers spawned in a fair run of one worker at a time.
MaxLiveCount == 24

\* Workers spawned in a fair run of concurrent workers.
MaxLiveShort == 5

\* One worker at a time to quiescence, or concurrent workers in a short run.
InitLive ==
    \E s \in LiveSeeds : \/ Start(s, 1, MaxLiveCount)
                          \/ Start(s, MaxLiveInFlight, MaxLiveShort)

\* The spawned future of worker i on a forge that answers every query.
LiveWorker(i) == i \in DOMAIN workers /\ (RunTask(i) \/ Send(i) \/ Finish(i))

\* handle_tasks itself: the loop around recv.recv().await and the joins.
HandleTasks == Recv \/ Retire \/ CheckInner \/ Join \/ CheckOuter

NextLive == HandleTasks \/ \E i \in 0..(MaxLiveCount - 1) : LiveWorker(i)

\* tokio polls every spawned future that can make a step, and handle_tasks.
SpecLive ==
    /\ InitLive
    /\ [][NextLive]_vars
    /\ WF_vars(HandleTasks)
    /\ \A i \in 0..(MaxLiveCount - 1) : WF_vars(LiveWorker(i))

----------------------------------------------------------------------------
(* VecStore::store, step by step, with a crash of the process at any step  *)

\* The stores that are written: one record of each type; the same with
\* another artifact and another project; the same with a second user.
CrashStores ==
    LET a == Populated(Kind("JobLog", <<>>), Expiration("Never", 0), "")
    IN {a,
        [a EXCEPT !.job_artifacts[1].kind = Kind("JUnit", <<>>),
                  !.projects[1].forge_id = 2],
        [a EXCEPT !.users = Append(@, [forge_id |-> 2, instance |-> 0,
                                       cim_refreshed_at |-> 0])]}

\* The writes of VecStore::store(path, st) in the order in which it makes
\* them: for every type, in the order of the Counts literal, and every
\* object of it File::create and then to_writer_pretty of <i>.json; at last
\* File::create and to_writer_pretty of vecindex.json.
RECURSIVE DataWrites(_, _)
DataWrites(st, k) ==
    IF k > Len(Types) THEN <<>>
    ELSE [j \in 1..(2 * Len(st[Types[k]])) |->
             [type |-> Types[k], i |-> (j + 1) \div 2,
              op |-> IF j % 2 = 1 THEN "create" ELSE "write"]]
         \o DataWrites(st, k + 1)

Writes(st) ==
    DataWrites(st, 1) \o <<[type |-> "vecindex", i |-> 0, op |-> "create"],
                           [type |-> "vecindex", i |-> 0, op |-> "write"]>>

\* The directory after one write of the store of st.
Written_dir(dir, st, w) ==
    IF w.type = "vecindex"
    THEN [dir EXCEPT !.index =
             IF w.op = "create" THEN <<EmptyFile>>
             ELSE <<[version |-> LATEST_VERSION,
                     counts |-> [t \in DOMAIN dir.files |-> Len(st[t])]]>>]
    ELSE LET content == IF w.op = "create" THEN EmptyFile
                        ELSE convert_to_json(w.type, st[w.type][w.i])
         IN [dir EXCEPT !.files[w.type] =
                IF w.i > Len(@) THEN Append(@, content) ELSE [@ EXCEPT ![w.i] = content]]

\* The directory is empty, or holds an earlier store; a store is written.
InitCrash ==
    \E st \in CrashStores, earlier \in {<<>>} \cup {<<e>> : e \in CrashStores} :
        Called([fn |-> "VecStore::store", earlier |-> earlier, written |-> 0,
                crashed |-> FALSE],
               st,
               IF earlier = <<>> THEN EmptyDir ELSE VecStore_store(EmptyDir, earlier[1]))

\* The next write of VecStore::store(path, &storage)
StoreWrite ==
    /\ call.fn = "VecStore::store"
    /\ ~call.crashed
    /\ call.written < Len(Writes(storage))
    /\ disk' = Written_dir(disk, storage, Writes(storage)[call.written + 1])
    /\ call' = [call EXCEPT !.written = @ + 1]
    /\ UNCHANGED <<queue, pc, tokio_tasks, workers, count, storage, failures, explore, arcs, stored, ret>>

\* The process dies before its next write.
Crash ==
    /\ call.fn = "VecStore::store"
    /\ ~call.crashed
    /\ call.written < Len(Writes(storage))
    /\ call' = [call EXCEPT !.crashed = TRUE]
    /\ UNCHANGED <<queue, pc, tokio_tasks, workers, count, storage, failures, explore, arcs, stored, ret, disk>>

\* VecStore::load(path) by the next process, or after the store returned.
LoadStored ==
    /\ call.fn = "VecStore::store"
    /\ call.crashed \/ call.written = Len(Writes(storage))
    /\ ret = <<>>
    /\ ret' = <<load(disk)>>
    /\ UNCHANGED <<queue, pc, tokio_tasks, workers, count, storage, failures, explore, arcs, stored, call, disk>>

NextCrash == StoreWrite \/ Crash \/ LoadStored

SpecCrash == InitCrash /\ [][NextCrash]_vars

----------------------------------------------------------------------------
(* The RwLock around the store: which guards the adapter functions hold     *)
(* at each of their steps.  A temporary of the scrutinee of an `if let`     *)
(* lives to the end of the statement the `if let` is in; from edition 2024  *)
(* on it is dropped before the else block.  std::sync::RwLock leaves open   *)
(* whether a waiting writer blocks new readers.                             *)

\* The steps of an adapter function that matter to the lock.
Await == [op |-> "await"]
StorageGuard == [op |-> "storage"]
DropGuard == [op |-> "drop"]
Lookup == [op |-> "lookup"]
AddTask(t) == [op |-> "add_task", task |-> t]
StorageMut == [op |-> "storage_mut"]
StoreValue(type, i) == [op |-> "store", type |-> type, id |-> i]
DropMut == [op |-> "drop_mut"]
Find(type, i, defer, found, absent) ==
    [op |-> "find", type |-> type, id |-> i, defer |-> defer,
     found |-> found, absent |-> absent]
Decide(t) == [op |-> "decide", task |-> t]

\* if let Some(idx) = find(forge.storage().deref(), i) { found } else { absent }
IfLetFind(edition, type, i, defer, found, absent) ==
    <<StorageGuard,
      Find(type, i, defer, found \o <<DropGuard>>,
           IF edition = 2021 THEN absent \o <<DropGuard>> ELSE <<DropGuard>> \o absent)>>

\* "Create a ... entry": lookup under a second guard when the record is found,
\* the builder when it is not.
CreateEntry(edition, type, i) ==
    IfLetFind(edition, type, i, FALSE, <<StorageGuard, Lookup, DropGuard>>, <<>>)

\* forge.storage_mut().store(entry);
StoreEntry(type, i) == <<StorageMut, StoreValue(type, i), DropMut>>

\* let x_idx = if let Some(idx) = find(..) { Some(idx) } else { add_task(t); None };
FindOrAdd(edition, type, i, defer, t) ==
    IfLetFind(edition, type, i, defer, <<>>, <<AddTask(t)>>)

\* The steps of run_task_async(task) when the forge answers its query.
Program(edition, t) ==
    CASE t.kind = "UpdateUser" ->
            <<Await>> \o CreateEntry(edition, "users", t.id) \o StoreEntry("users", t.id)
      [] t.kind = "UpdateProject" ->
            <<Await>> \o CreateEntry(edition, "projects", t.project)
                \o [k \in 1..Len(ProjectComponents(GlProject(t.project))) |->
                       AddTask(ProjectComponents(GlProject(t.project))[k])]
                \o StoreEntry("projects", t.project)
      [] t.kind = "UpdateJob" ->
            LET gl == GlJob(t.project, t.id) IN
            <<Await>>
                \o FindOrAdd(edition, "users", gl.user, TRUE, UpdateUserTask(gl.user))
                \o FindOrAdd(edition, "pipelines", gl.pipeline.id, TRUE,
                             UpdatePipelineTask(gl.pipeline.project_id, gl.pipeline.id))
                \o (IF gl.runner = NONE THEN <<>>
                    ELSE FindOrAdd(edition, "runners", gl.runner, FALSE,
                                   UpdateRunnerTask(gl.runner)))
                \o <<Decide(UpdateJobTask(t.project, gl.id))>>
                \o CreateEntry(edition, "jobs", gl.id) \o StoreEntry("jobs", gl.id)

\* The tasks whose workers run side by side.
LockTasks == {UpdateUserTask(1), UpdateUserTask(2), UpdateProjectTask(1), UpdateJobTask(1, 1)}

\* The ids of the workers.
LockWorkers == {0, 1}

\* The store the workers start on: new, or with what the tasks look for.
LockStores ==
    {NewStorage,
     [NewStorage EXCEPT
         !.users = <<[forge_id |-> 1, instance |-> instance_index]>>,
         !.projects = <<[forge_id |-> 1, instance |-> instance_index,
                         cim_refreshed_at |-> Now]>>,
         !.pipelines = <<[forge_id |-> 1, project |-> 0, user |-> 0]>>]}

\* A spawned future: what it has left to do, the read guards it holds,
\* whether it holds the write guard, and the guard it waits for.
LockWorker(edition, t) ==
    [task |-> t, todo |-> Program(edition, t), guards |-> 0, writing |-> FALSE,
     wait |-> "", missing |-> FALSE, add |-> <<>>]

InitLock ==
    \E edition \in {2021, 2024}, writers_first \in BOOLEAN, st \in LockStores :
    \E ts \in [LockWorkers -> LockTasks] :
        /\ queue = <<>>
        /\ pc = "recv"
        /\ tokio_tasks = <<>>
        /\ workers = [i \in LockWorkers |-> LockWorker(edition, ts[i])]
        /\ count = 0
        /\ storage = st
        /\ failures = 0
        /\ explore = [in_flight |-> 0, count |-> 0]
        /\ arcs = <<>>
        /\ stored = <<>>
        /\ call = [fn |-> "RwLock", edition |-> edition, writers_first |-> writers_first]
        /\ ret = <<>>
        /\ disk = <<>>

Readers == {i \in DOMAIN workers : workers[i].guards > 0}
Writers == {i \in DOMAIN workers : workers[i].writing}
WaitingWriters == {i \in DOMAIN workers : workers[i].wait = "write"}

\* RwLock::read returns: nobody writes and, where writers go first, no writer
\* waits.
CanRead == Writers = {} /\ (call.writers_first => WaitingWriters = {})

\* RwLock::write returns: nobody holds a guard.
CanWrite == Writers = {} /\ Readers = {}

Doing(i) == IF workers[i].todo = <<>> THEN "return" ELSE Head(workers[i].todo).op

\* The worker after its next step is done.
Done(w) == [w EXCEPT !.todo = Tail(@)]

\* forge.storage() or forge.storage_mut() is called by worker i.
Request(i) ==
    /\ call.fn = "RwLock"
    /\ Doing(i) \in {"storage", "storage_mut"}
    /\ workers[i].wait = ""
    /\ workers' = [workers EXCEPT ![i].wait =
                      IF Doing(i) = "storage" THEN "read" ELSE "write"]
    /\ UNCHANGED <<queue, pc, tokio_tasks, count, storage, failures, explore, arcs, stored, call, ret, disk>>

\* The lock hands worker i the guard it waits for.
Grant(i) ==
    /\ call.fn = "RwLock"
    /\ \/ /\ workers[i].wait = "read"
          /\ CanRead
          /\ workers' = [workers EXCEPT ![i] = [Done(@) EXCEPT !.wait = "", !.guards = @ + 1]]
       \/ /\ workers[i].wait = "write"
          /\ CanWrite
          /\ workers' = [workers EXCEPT ![i] = [Done(@) EXCEPT !.wait = "", !.writing = TRUE]]
    /\ UNCHANGED <<queue, pc, tokio_tasks, count, storage, failures, explore, arcs, stored, call, ret, disk>>

\* Any other step of worker i.
Proceed(i) ==
    /\ call.fn = "RwLock"
    /\ LET w == workers[i]
           o == Head(w.todo)
           idx == find(storage[o.type], o.id)
       IN \/ /\ Doing(i) \in {"await", "lookup"}
             /\ workers' = [workers EXCEPT ![i] = Done(w)]
             /\ storage' = storage
          \/ /\ Doing(i) = "drop"
             /\ workers' = [workers EXCEPT ![i] = [Done(w) EXCEPT !.guards = @ - 1]]
             /\ storage' = storage
          \/ /\ Doing(i) = "find"
             /\ workers' = [workers EXCEPT ![i] =
                   [w EXCEPT !.todo = (IF idx # NONE THEN o.found ELSE o.absent) \o Tail(@),
                             !.missing = @ \/ (o.defer /\ idx = NONE)]]
             /\ storage' = storage
          \/ /\ Doing(i) = "add_task"
             /\ workers' = [workers EXCEPT ![i] = [Done(w) EXCEPT !.add = Append(@, o.task)]]
             /\ storage' = storage
          \/ /\ Doing(i) = "decide"
             /\ workers' = [workers EXCEPT ![i].todo =
                               IF w.missing THEN <<AddTask(o.task)>> ELSE Tail(@)]
             /\ storage' = storage
          \/ /\ Doing(i) = "store"
             /\ workers' = [workers EXCEPT ![i] = Done(w)]
             /\ storage' = [storage EXCEPT ![o.type] =
                               store(@, [forge_id |-> o.id, instance |-> instance_index])]
          \/ /\ Doing(i) = "drop_mut"
             /\ workers' = [workers EXCEPT ![i] = [Done(w) EXCEPT !.writing = FALSE]]
             /\ storage' = storage
    /\ UNCHANGED <<queue, pc, tokio_tasks, count, failures, explore, arcs, stored, call, ret, disk>>

NextLock == \E i \in LockWorkers : Request(i) \/ Grant(i) \/ Proceed(i)

SpecLock == InitLock /\ [][NextLock]_vars

----------------------------------------------------------------------------
(* PipelineMigration::migrate over pipelines that have parent pipelines *)

\* The source holds at most this many pipelines.
MaxPipelines == 3

\* A source store of n pipelines of one project, pipeline i with the parent
\* parent[i] (an index, or NONE).
PipelineSource(n, parent) ==
    [EmptyStore EXCEPT
        !.instances = <<[unique_id |-> 0]>>,
        !.projects = <<[forge_id |-> 1, instance |-> 0, cim_refreshed_at |-> Now]>>,
        !.pipelines = [k \in 1..n |->
            [project |-> 0, schedule |-> NONE, parent_pipeline |-> parent[k - 1],
             merge_request |-> NONE, user |-> NONE, status |-> "Success",
             forge_id |-> k, cim_refreshed_at |-> Now]]]

\* Every parent relation, cycles and children before their parents included.
PipelineSources ==
    UNION {{PipelineSource(n, parent) :
               parent \in [0..(n - 1) -> {NONE} \cup 0..(n - 1)]} : n \in 0..MaxPipelines}

\* What the pipeline pass is given once the passes before it have translated
\* the instance and the project: their records in the sink, their indices in
\* the maps, and the new IndexMap of the pipelines.
BeforePipelines(source) ==
    [sink |-> [EmptyStore EXCEPT !.instances = source.instances,
                                 !.projects = source.projects],
     with_missing_parent |-> {},
     maps |-> [t \in DOMAIN EmptyStore |->
                  IF t \in {"instances", "projects"} THEN [i \in {0} |-> 0]
                  ELSE [i \in {} |-> 0]]]

\* The Migration of the type.
MigrationOf(type) == Migrations[CHOOSE k \in 1..Len(Migrations) : Migrations[k].type = type]

InitPipelines ==
    \E source \in PipelineSources, fn \in {"migrate_object_store/pipelines",
                                          "PipelineMigration::migrate"} :
        Called([fn |-> fn, source |-> source], NewStorage, <<>>)

\* migrate_object_store(source, &mut VecLookup::default()) of a source with
\* pipelines
MigrateStore ==
    /\ call.fn = "migrate_object_store/pipelines"
    /\ ret = <<>>
    /\ ret' = <<migrate_object_store(call.source, EmptyStore)>>
    /\ UNCHANGED <<queue, pc, tokio_tasks, workers, count, storage, failures,
                   explore, arcs, stored, call, disk>>

\* PipelineMigration::migrate(source, sink, &mut IndexMap::default())
MigratePipelines ==
    /\ call.fn = "PipelineMigration::migrate"
    /\ ret = <<>>
    /\ ret' = <<migrate(MigrationOf("pipelines"), call.source, BeforePipelines(call.source),
                        [i \in 1..Len(call.source.pipelines) |-> i - 1])>>
    /\ UNCHANGED <<queue, pc, tokio_tasks, workers, count, storage, failures,
                   explore, arcs, stored, call, disk>>

NextPipelines == MigrateStore \/ MigratePipelines

SpecPipelines == InitPipelines /\ [][NextPipelines]_vars

----------------------------------------------------------------------------
(* IndexMap::entry and InstanceMigration::migrate on a given IndexMap *)

\* The highest source index, and the highest sink index, of an IndexMap.
MaxKey == 2

\* The IndexMaps: some source indices, each with a sink index.
IndexMaps == UNION {[keys -> 0..MaxKey] : keys \in SUBSET (0..MaxKey)}

\* A source of n Instances.
InstanceSource(n) == [EmptyStore EXCEPT !.instances = [k \in 1..n |-> [unique_id |-> k]]]

InitEntry ==
    \E imap \in IndexMaps :
        \/ \E key \in 0..MaxKey :
              Called([fn |-> "IndexMap::entry", imap |-> imap, key |-> key], NewStorage, <<>>)
        \/ \E n \in 0..(MaxKey + 1) :
              Called([fn |-> "InstanceMigration::migrate", imap |-> imap,
                      source |-> InstanceSource(n)], NewStorage, <<>>)

\* imap.entry(key)
RecordEntry ==
    /\ call.fn = "IndexMap::entry"
    /\ ret = <<>>
    /\ ret' = <<IndexMap_entry(call.imap, "instances", call.key)>>
    /\ UNCHANGED <<queue, pc, tokio_tasks, workers, count, storage, failures,
                   explore, arcs, stored, call, disk>>

\* InstanceMigration::migrate(source, &mut VecLookup::default(), imap)
MigrateInstances ==
    /\ call.fn = "InstanceMigration::migrate"
    /\ ret = <<>>
    /\ ret' = <<migrate(MigrationOf("instances"), call.source,
                        [sink |-> EmptyStore, with_missing_parent |-> {},
                         maps |-> [t \in DOMAIN EmptyStore |->
                                      IF t = "instances" THEN call.imap
                                      ELSE [i \in {} |-> 0]]],
                        [i \in 1..Len(call.source.instances) |-> i - 1])>>
    /\ UNCHANGED <<queue, pc, tokio_tasks, workers, count, storage, failures,
                   explore, arcs, stored, call, disk>>

NextEntry == RecordEntry \/ MigrateInstances

SpecEntry == InitEntry /\ [][NextEntry]_vars

----------------------------------------------------------------------------
(* Concurrent reconciliations with a clock: update_user and update_runner   *)
(* with the times they read from Utc::now().                                *)

\* The clock runs from 1 to this.
MaxNow == 3

\* The store type an Update* task reconciles.
TypeOf(t) == IF t.kind = "UpdateUser" THEN "users" ELSE "runners"

\* update_user, update_runner after the forge's answer, when Utc::now() is
\* now: the found record is cloned and refreshed; a new record is built with
\* cim_fetched_at and cim_refreshed_at of now and refreshed.
update_at(w, st, now) ==
    CASE w.pc = "find" ->
            Entry(w, st, st[TypeOf(w.task)], w.task.id,
                  [cim_refreshed_at |-> now],
                  [forge_id |-> w.task.id, instance |-> instance_index,
                   cim_fetched_at |-> now, cim_refreshed_at |-> now])
      [] w.pc = "store" ->
            Ok(w, [st EXCEPT ![TypeOf(w.task)] = store(@, w.entry[1])])

\* A record stored at time 0.
Fetched(i) ==
    [forge_id |-> i, instance |-> instance_index, cim_fetched_at |-> 0,
     cim_refreshed_at |-> 0]

\* The store the workers start on: new, or with both users and the runner.
ReconcileStores ==
    {NewStorage,
     [NewStorage EXCEPT !.users = <<Fetched(1), Fetched(2)>>, !.runners = <<Fetched(1)>>]}

\* The tasks of the two workers.
ReconcileTasks == {UpdateUserTask(1), UpdateUserTask(2), UpdateRunnerTask(1)}

InitReconcile ==
    \E st \in ReconcileStores, ts \in [{0, 1} -> ReconcileTasks] :
        /\ queue = <<>>
        /\ pc = "recv"
        /\ tokio_tasks = <<>>
        /\ workers = [i \in {0, 1} |-> [NewWorker(ts[i]) EXCEPT !.pc = "find"]]
        /\ count = 0
        /\ storage = st
        /\ failures = 0
        /\ explore = [in_flight |-> 0, count |-> 0]
        /\ arcs = <<>>
        /\ stored = <<>>
        /\ call = [fn |-> "reconcile", now |-> 1]
        /\ ret = <<>>
        /\ disk = <<>>

\* Time passes.
Tick ==
    /\ call.fn = "reconcile"
    /\ call.now < MaxNow
    /\ call' = [call EXCEPT !.now = @ + 1]
    /\ UNCHANGED <<queue, pc, tokio_tasks, workers, count, storage, failures, explore, arcs, stored, ret, disk>>

\* The next step of worker i: its "Create a ... entry" block, or its store.
Reconcile(i) ==
    /\ call.fn = "reconcile"
    /\ workers[i].pc \in {"find", "store"}
    /\ workers' = [workers EXCEPT ![i] = update_at(@, storage, call.now).w]
    /\ storage' = update_at(workers[i], storage, call.now).st
    /\ UNCHANGED <<queue, pc, tokio_tasks, count, failures, explore, arcs, stored, call, ret, disk>>

NextReconcile == Tick \/ \E i \in {0, 1} : Reconcile(i)

SpecReconcile == InitReconcile /\ [][NextReconcile]_vars

----------------------------------------------------------------------------
(* update_merge_request, called with a task made by discover_merge_requests  *)
(* on stores that miss the author or a project of the merge request.         *)

\* The numbers of the merge requests within the project (iid).
MergeRequestIids == {1, 2}

\* The ids of the merge requests within the instance (id).
MergeRequestIds == {1, 2, 7}

\* The stores before the call: the author is stored or not, and so is each of
\* the two projects.
DeferStores ==
    LET user == [forge_id |-> 2, instance |-> instance_index]
        project(p) == [forge_id |-> p, instance |-> instance_index,
                       cim_refreshed_at |-> Now]
    IN {[NewStorage EXCEPT !.users = us, !.projects = ps] :
           us \in {<<>>, <<user>>},
           ps \in {<<>>, <<project(2)>>, <<project(3)>>, <<project(2), project(3)>>}}

\* The task is the one discover_merge_requests made from the iid; the forge
\* answers the query for that iid with the merge request, which has its id.
InitDefer ==
    \E iid \in MergeRequestIids, gid \in MergeRequestIds,
       source \in {NONE, 2, 3}, st \in DeferStores :
        Called([fn |-> "update_merge_request", task |-> UpdateMergeRequestTask(2, iid),
                gl |-> [GlMergeRequest(2, iid) EXCEPT !.id = gid,
                                                      !.source_project_id = source],
                pc |-> "find_user", seen |-> MaxObservations], st, <<>>)

NextDefer == UpdateMergeRequest

SpecDefer == InitDefer /\ [][NextDefer]_vars

----------------------------------------------------------------------------
(* Runs on a forge where one task fails on every attempt, under fair        *)
(* scheduling.  count is only printed; the handles of the spawned futures   *)
(* are named by it modulo HandleNames, so that a run that goes on for ever  *)
(* comes back to a state it was in.                                         *)

\* The names of the handles: more than the workers alive at once.
HandleNames == 4

\* No task.
NoTask == Task("None", 0, 0)

\* The queues of these runs: a task that refers to user 2.
GoneSeeds ==
    { <<UpdateJobTask(3, 2)>>,
      <<UpdatePipelineScheduleTask(2, 1)>>,
      <<UpdateMergeRequestTask(2, 1)>> }

\* The forge answers every attempt of call.gone with 404, or it has no such
\* task.  One worker at a time.
InitGone ==
    \E s \in GoneSeeds, gone \in {NoTask, UpdateUserTask(2)} :
        /\ queue = [k \in 1..Len(s) |-> Msg(s[k], NONE, 0)]
        /\ pc = "recv"
        /\ tokio_tasks = <<>>
        /\ workers = <<>>
        /\ count = 0
        /\ storage = NewStorage
        /\ failures = 0
        /\ explore = [in_flight |-> 1, count |-> HandleNames]
        /\ arcs = <<>>
        /\ stored = <<>>
        /\ call = [fn |-> "handle_tasks", gone |-> gone]
        /\ ret = <<>>
        /\ disk = <<>>

\* recv.recv().await returns Some(task), tokio::spawn, tokio_tasks.push: Recv
\* without a bound on the workers spawned.
RecvGone ==
    /\ pc = "recv"
    /\ queue # <<>>
    /\ Cardinality(Unfinished) < explore.in_flight
    /\ count \notin DOMAIN workers
    /\ queue' = Tail(queue)
    /\ workers' = [i \in DOMAIN workers \cup {count} |->
                      IF i = count THEN NewWorker(Head(queue).task) ELSE workers[i]]
    /\ tokio_tasks' = Append(tokio_tasks, count)
    /\ count' = (count + 1) % HandleNames
    /\ pc' = "retire"
    /\ UNCHANGED <<storage, failures, explore, arcs, stored, call, ret, disk>>

\* The forge call of worker i is the one that fails on every attempt:
\* run_task_async returns Err, the worker prints it and returns.
FailGone(i) ==
    /\ workers[i].pc = "start"
    /\ workers[i].task = call.gone
    /\ workers' = [workers EXCEPT ![i] =
                      Finished(Err(@, storage, forge_error(ServiceError(404))).w)]
    /\ UNCHANGED <<queue, pc, tokio_tasks, count, storage, failures, explore, arcs, stored, call, ret, disk>>

\* The spawned future of worker i.
GoneWorker(i) ==
    /\ i \in DOMAIN workers
    /\ \/ FailGone(i)
       \/ workers[i].task # call.gone /\ RunTask(i)
       \/ Send(i)
       \/ Finish(i)

\* handle_tasks itself.
HandleTasksGone == RecvGone \/ Retire \/ CheckInner \/ Join \/ CheckOuter

NextGone == HandleTasksGone \/ \E i \in 0..(HandleNames - 1) : GoneWorker(i)

\* tokio polls every spawned future that can make a step, and handle_tasks.
SpecGone ==
    /\ InitGone
    /\ [][NextGone]_vars
    /\ WF_vars(HandleTasksGone)
    /\ \A i \in 0..(HandleNames - 1) : WF_vars(GoneWorker(i))

----------------------------------------------------------------------------
(* The blob store on every configuration that Filesystem::open accepts:     *)
(* where the blobs go.                                                      *)

\* The sharding lists of the configuration files: no break or up to three,
\* short ones and ones as long as a digest or nearly.
PathSlices == UpTo({1, 2, 63, 64}, MAX_BREAKS)

\* Filesystem::open on a directory with an accepted configuration file;
\* Filesystem::create with Sharding::once, twice, thrice or default() makes
\* the stores of the lists that are not empty.
InitPaths ==
    \E algorithm \in {"sha256", "sha512"}, slice \in PathSlices :
        LET fs == open_impl(<<[algorithm |-> algorithm, sharding |-> slice]>>)
        IN  /\ fs.ok
            /\ Called([fn |-> "Filesystem", algo |-> fs.value.algo,
                       sharding |-> fs.value.sharding], NewStorage, {})

NextPaths ==
    \/ \E blob \in Payloads : BlobStore(blob, NoFault)
    \/ \E blob \in BlobReferences : BlobFetch(blob, NoFault)

SpecPaths == InitPaths /\ [][NextPaths]_vars

----------------------------------------------------------------------------
(* BlobPersistence::store of one thread and fetch or verify of another, on  *)
(* the same bytes, step by step.  workers[0] is the thread that stores,     *)
(* workers[1] the one that reads.                                           *)

\* The two threads.
Storer == "store"
Reader == "fetch"

\* The Filesystem is the default one or has one break; the file of the blob
\* is not there, or it is there from an earlier store of the same bytes.
InitTorn ==
    \E algo \in {"sha256", "sha512"}, sharding \in {<<2, 2, 0>>, <<1, 0, 0>>},
       blob \in Payloads, op \in {"fetch", "verify"}, before \in BOOLEAN :
        LET fs == [algo |-> algo, sharding |-> sharding] IN
        /\ queue = <<>>
        /\ pc = "recv"
        /\ tokio_tasks = <<>>
        /\ workers = [i \in {Storer, Reader} |->
                         IF i = Storer THEN [pc |-> "create_dir_all", written |-> 0]
                         ELSE [pc |-> "open", late |-> FALSE]]
        /\ count = 0
        /\ storage = NewStorage
        /\ failures = 0
        /\ explore = [in_flight |-> 0, count |-> 0]
        /\ arcs = <<>>
        /\ stored = <<>>
        /\ call = [fn |-> "store and " \o op, op |-> op, algo |-> algo,
                   sharding |-> sharding, blob |-> blob]
        /\ ret = <<>>
        /\ disk = IF before THEN blob_store(fs, {}, blob, NoFault).files ELSE {}

\* fs::create_dir_all(parent) of store
StoreCreateDirAll ==
    /\ workers[Storer].pc = "create_dir_all"
    /\ workers' = [workers EXCEPT ![Storer].pc = "create"]
    /\ UNCHANGED <<queue, pc, tokio_tasks, count, storage, failures, explore, arcs, stored, call, ret, disk>>

\* File::create(&path) of store: the file is there and empty.
StoreCreate ==
    /\ workers[Storer].pc = "create"
    /\ disk' = Written(disk, path_for(call, for_blob(call.blob, call.algo)), <<>>)
    /\ workers' = [workers EXCEPT ![Storer].pc =
                      IF call.blob = <<>> THEN "done" ELSE "write_all"]
    /\ UNCHANGED <<queue, pc, tokio_tasks, count, storage, failures, explore, arcs, stored, call, ret>>

\* One write of file.write_all(blob): the file holds the bytes up to n.
StoreWriteAll(n) ==
    /\ workers[Storer].pc = "write_all"
    /\ n > workers[Storer].written
    /\ disk' = Written(disk, path_for(call, for_blob(call.blob, call.algo)),
                       SubSeq(call.blob, 1, n))
    /\ workers' = [workers EXCEPT ![Storer].written = n,
                                  ![Storer].pc = IF n = Len(call.blob) THEN "done"
                                                 ELSE "write_all"]
    /\ UNCHANGED <<queue, pc, tokio_tasks, count, storage, failures, explore, arcs, stored, call, ret>>

\* File::open(&path) of fetch: NotFound, or the file is open.  late: store had
\* returned by then.
ReadOpen ==
    /\ workers[Reader].pc = "open"
    /\ LET found == blob_contains(call, disk, for_blob(call.blob, call.algo)).result.value
           result == IF call.op = "fetch"
                     THEN blob_fetch(call, disk, for_blob(call.blob, call.algo), NoFault)
                     ELSE blob_verify(call, disk, for_blob(call.blob, call.algo), NoFault)
       IN  /\ workers' = [workers EXCEPT ![Reader] =
                             [pc |-> IF found THEN "read_to_end" ELSE "done",
                              late |-> workers[Storer].pc = "done"]]
           /\ ret' = IF found THEN ret ELSE <<result.result>>
    /\ UNCHANGED <<queue, pc, tokio_tasks, count, storage, failures, explore, arcs, stored, call, disk>>

\* file.read_to_end(&mut contents) of fetch: the bytes the file holds now;
\* verify goes on to compare their reference.
ReadToEnd ==
    /\ workers[Reader].pc = "read_to_end"
    /\ ret' = <<(IF call.op = "fetch"
                 THEN blob_fetch(call, disk, for_blob(call.blob, call.algo), NoFault)
                 ELSE blob_verify(call, disk, for_blob(call.blob, call.algo), NoFault)).result>>
    /\ workers' = [workers EXCEPT ![Reader].pc = "done"]
    /\ UNCHANGED <<queue, pc, tokio_tasks, count, storage, failures, explore, arcs, stored, call, disk>>

NextTorn ==
    \/ StoreCreateDirAll
    \/ StoreCreate
    \/ \E n \in 1..Len(call.blob) : StoreWriteAll(n)
    \/ ReadOpen
    \/ ReadToEnd

SpecTorn == InitTorn /\ [][NextTorn]_vars

----------------------------------------------------------------------------
(* Properties of the scheduler *)

\* C1: handle_tasks returns only at quiescence: when it has left its loops
\* the queue is empty, every spawned worker has finished and has been joined,
\* and no message of a worker is still to be sent.
C1_ExitOnlyAtQuiescence ==
    pc = "done" => /\ queue = <<>>
                   /\ Unfinished = {}
                   /\ DOMAIN workers = {}
                   /\ tokio_tasks = <<>>

\* handle_tasks has returned after workers enqueued follow-up tasks and a
\* record was stored.
C1_Witness ==
    /\ pc = "done"
    /\ count >= 3
    /\ Len(storage.runners) + Len(storage.users) > 0

InFlightCap == 50

\* C3: the number of spawned workers that have not been retired never
\* exceeds InFlightCap.
C3_InFlightCapped == Cardinality(DOMAIN workers) <= InFlightCap

\* The messages in the queue that worker i sent.
SentBy(i) == {k \in 1..Len(queue) : queue[k].origin = i}

\* C4: a worker whose adapter call returned an error enqueues nothing, and
\* the error does not end the run early: handle_tasks still returns only
\* when nothing is queued and no worker is left.
C4_FailureIsLocal ==
    /\ \A i \in DOMAIN workers :
          workers[i].err # "" => workers[i].add = <<>> /\ SentBy(i) = {}
    /\ (failures > 0 /\ pc = "done") => (queue = <<>> /\ DOMAIN workers = {})

\* A forge call failed, and the run went on to its end: another task stored
\* its record and handle_tasks returned.
C4_Witness ==
    /\ failures > 0
    /\ pc = "done"
    /\ Len(storage.runners) + Len(storage.users) + Len(storage.projects) > 0

\* Message m is received before every task that the same worker put before
\* it in its outcome: none of those is still queued behind it, and the worker
\* has sent all of them.
NoEarlierSibling(m) ==
    /\ \A k \in 2..Len(queue) :
          ~(queue[k].origin = m.origin /\ queue[k].pos < m.pos)
    /\ (m.origin \in DOMAIN workers /\ workers[m.origin].pc = "send")
          => workers[m.origin].sent > m.pos

\* C5: the follow-up tasks of one outcome are received in the order they have
\* in outcome.additional_tasks, whatever other workers send in between.
C5_OutcomeOrder ==
    [][(count' = count + 1 /\ Head(queue).origin # NONE)
          => NoEarlierSibling(Head(queue))]_vars

\* Two tasks of one outcome are queued with a task of another worker between
\* them.
C5_Witness ==
    \E a, b, c \in 1..Len(queue) :
        /\ a < b /\ b < c
        /\ queue[a].origin # NONE
        /\ queue[a].origin = queue[c].origin
        /\ queue[b].origin # queue[a].origin
        /\ queue[b].origin # NONE

----------------------------------------------------------------------------
(* Properties of the adapter *)

\* The workers whose update_job has returned Ok and that have not finished.
JobsReturned ==
    {i \in DOMAIN workers : /\ workers[i].task.kind = "UpdateJob"
                            /\ workers[i].pc = "send"
                            /\ workers[i].err = ""}

\* update_job found neither the job's user nor its pipeline in the store.
BothAbsent(w) == w.user_idx = NONE /\ w.project_idx = NONE

\* update_job found both the job's user and its pipeline in the store.
BothFound(w) == w.user_idx # NONE /\ w.project_idx # NONE

\* The indices of the Job records with forge_id j.
JobsOf(j) == {k \in 1..Len(storage.jobs) : storage.jobs[k].forge_id = j}

\* The tasks update_job adds for the job's runner: UpdateRunner if the job has
\* a runner that find did not find.
RunnerTasks(w) ==
    IF GlJob(w.task.project, w.task.id).runner # NONE /\ w.other_idx = NONE
    THEN <<UpdateRunnerTask(GlJob(w.task.project, w.task.id).runner)>>
    ELSE <<>>

\* What an update_job that returned Ok has done, when its deferral adds the
\* tasks UpdateUser, UpdatePipeline, then those of middle, then UpdateJob.
JobOutcome(w, middle) ==
    LET gl == GlJob(w.task.project, w.task.id) IN
    /\ BothAbsent(w) =>
          /\ w.add = <<UpdateUserTask(gl.user),
                       UpdatePipelineTask(gl.pipeline.project_id, gl.pipeline.id)>>
                      \o middle
                      \o <<UpdateJobTask(w.task.project, w.task.id)>>
          /\ w.entry = <<>>
    /\ BothFound(w) => Cardinality(JobsOf(gl.id)) = 1

\* C6 as stated: an UpdateJob that finds neither user nor pipeline returns
\* exactly [UpdateUser, UpdatePipeline, UpdateJob] and builds no Job record;
\* an UpdateJob that finds both leaves exactly one Job with that forge_id.
C6_DeferralOutcome ==
    \A i \in JobsReturned : JobOutcome(workers[i], <<>>)

\* C6: an UpdateJob that finds neither user nor pipeline returns
\* [UpdateUser, UpdatePipeline, UpdateJob], with UpdateRunner before UpdateJob
\* when the job has a runner that is not in the store, and builds no Job
\* record; an UpdateJob that finds both leaves exactly one Job with that
\* forge_id.
C6_DeferralOutcomeWithRunner ==
    \A i \in JobsReturned : JobOutcome(workers[i], RunnerTasks(workers[i]))

\* An UpdateJob deferred itself, and its retry stored the one Job record.
C6_Witness ==
    \E i, j \in JobsReturned :
        /\ workers[i].task = workers[j].task
        /\ BothAbsent(workers[i])
        /\ workers[i].sent = Len(workers[i].add)
        /\ BothFound(workers[j])
        /\ Cardinality(JobsOf(workers[j].task.id)) = 1

\* C7: an Update* task that does not find an entity its forge record
\* references adds the task that populates it and the task itself, also for a
\* job's runner and a pipeline's user; so when handle_tasks has returned,
\* every stored job whose forge record names a runner has one and every
\* stored pipeline whose forge record names a user has one.
C7_OptionalReferencesFilled ==
    /\ \A i \in JobsReturned :
          RunnerTasks(workers[i]) # <<>> =>
              \E k \in 1..Len(workers[i].add) : workers[i].add[k] = workers[i].task
    /\ \A i \in DOMAIN workers :
          LET w == workers[i] IN
          (/\ w.task.kind = "UpdatePipeline" /\ w.pc = "send" /\ w.err = ""
           /\ GlPipeline(w.task.project, w.task.id).user # NONE
           /\ w.user_idx = NONE)
              => \E k \in 1..Len(w.add) : w.add[k] = w.task
    /\ pc = "done" =>
          /\ \A k \in 1..Len(storage.jobs) :
                GlJob(0, storage.jobs[k].forge_id).runner # NONE
                    => storage.jobs[k].runner # NONE
          /\ \A k \in 1..Len(storage.pipelines) :
                GlPipeline(0, storage.pipelines[k].forge_id).user # NONE
                    => storage.pipelines[k].user # NONE

\* Index idx resolves in vec, to the record with id i.
RefersTo(vec, idx, i) ==
    lookup(vec, idx) # <<>> /\ id(lookup(vec, idx)[1]) = i

\* C8: every reference of every stored record resolves in the same store, to
\* the record the forge names; the required references are never missing.
C8_ReferenceIntegrity ==
    /\ \A k \in 1..Len(storage.users) :
          RefersTo(storage.instances, storage.users[k].instance, 0)
    /\ \A k \in 1..Len(storage.projects) :
          RefersTo(storage.instances, storage.projects[k].instance, 0)
    /\ \A k \in 1..Len(storage.runners) :
          RefersTo(storage.instances, storage.runners[k].instance, 0)
    /\ \A k \in 1..Len(storage.pipelines) :
          LET e == storage.pipelines[k]
              gl == GlPipeline(0, e.forge_id) IN
          /\ RefersTo(storage.projects, e.project, gl.project_id)
          /\ e.user # NONE => RefersTo(storage.users, e.user, gl.user)
    /\ \A k \in 1..Len(storage.jobs) :
          LET e == storage.jobs[k]
              gl == GlJob(0, e.forge_id) IN
          /\ RefersTo(storage.users, e.user, gl.user)
          /\ RefersTo(storage.pipelines, e.pipeline, gl.pipeline.id)
          /\ e.runner # NONE => RefersTo(storage.runners, e.runner, gl.runner)
    /\ \A k \in 1..Len(storage.merge_requests) :
          LET e == storage.merge_requests[k]
              gl == GlMergeRequest(0, e.id) IN
          /\ RefersTo(storage.users, e.author, gl.author)
          /\ RefersTo(storage.projects, e.target_project, gl.target_project_id)
          /\ RefersTo(storage.projects, e.source_project, gl.source_project_id)
    /\ \A k \in 1..Len(storage.pipeline_schedules) :
          LET e == storage.pipeline_schedules[k]
              gl == GlPipelineSchedule(0, e.forge_id) IN
          /\ RefersTo(storage.users, e.owner, gl.owner)
          /\ lookup(storage.projects, e.project) # <<>>

\* A job is stored with its user and its pipeline, the pipeline with its
\* project, while another task has been received.
C8_Witness ==
    /\ Len(storage.jobs) > 0
    /\ Len(storage.pipelines) > 0
    /\ Len(storage.users) > 0

\* No two entries of vec have the same id.
UniqueIds(vec) ==
    \A j, k \in 1..Len(vec) : id(vec[j]) = id(vec[k]) => j = k

\* C9: the store holds at most one record per type and identity key.
C9_IdentityUnique ==
    /\ UniqueIds(storage.instances)
    /\ UniqueIds(storage.users)
    /\ UniqueIds(storage.projects)
    /\ UniqueIds(storage.runners)
    /\ UniqueIds(storage.pipelines)
    /\ UniqueIds(storage.jobs)
    /\ UniqueIds(storage.merge_requests)
    /\ UniqueIds(storage.pipeline_schedules)

\* Two workers updated the same user: both looked for it and found nothing
\* before either stored, and both have stored.
C9_Witness ==
    \E i, j \in DOMAIN workers :
        /\ i # j
        /\ workers[i].task = workers[j].task
        /\ workers[i].task.kind = "UpdateUser"
        /\ workers[i].pc = "send" /\ workers[j].pc = "send"
        /\ workers[i].idx = NONE /\ workers[j].idx = NONE
        /\ workers[i].entry # <<>> /\ workers[j].entry # <<>>
        /\ Len(storage.users) = 1

----------------------------------------------------------------------------
(* Properties of Lookup::store *)

\* The store calls made before call k on the same backend.
Earlier(k) == {j \in 1..(k - 1) : stored[j].backend = stored[k].backend}

\* Those of them that stored a value with the identity key of call k's.
SameKey(k) == {j \in Earlier(k) : id(stored[j].data) = id(stored[k].data)}

\* The first store call with the identity key of call k's.
FirstStored(k) == CHOOSE j \in SameKey(k) : \A h \in SameKey(k) : j <= h

\* Call k returned an index that no earlier call returned.
Fresh(k) == \A j \in Earlier(k) : stored[j].idx # stored[k].idx

\* Insert-or-replace: the index of the first store of the key if there was
\* one, a fresh index if not.
InsertOrReplace(k) ==
    IF SameKey(k) # {} THEN stored[k].idx = stored[FirstStored(k)].idx ELSE Fresh(k)

\* The record index idx resolves to in the backend of call k.
Resolve(k) ==
    IF stored[k].backend = "vec" THEN lookup(storage.users, stored[k].idx)
    ELSE arc_lookup(arcs, stored[k].idx)

\* Unless a later call returned the same index, the index call k returned
\* resolves to the value call k stored: lookup of the returned index yields
\* the value, and no later store of another record changes it.
Kept(k) ==
    (\A j \in (k + 1)..Len(stored) :
         stored[j].backend = stored[k].backend => stored[j].idx # stored[k].idx)
        => Resolve(k) = <<stored[k].data>>

\* C10 as stated: on both backends store is insert-or-replace by identity
\* key, lookup of the returned index yields the value, and the other records
\* are unchanged.
C10_InsertOrReplaceEveryBackend ==
    \A k \in 1..Len(stored) : InsertOrReplace(k) /\ Kept(k)

\* C10: VecLookup::store is insert-or-replace by identity key; ArcLookup::store
\* always returns a fresh index; on both, lookup of the returned index yields
\* the value and the other records are unchanged.
C10_InsertOrReplaceVec ==
    \A k \in 1..Len(stored) :
        /\ stored[k].backend = "vec" => InsertOrReplace(k)
        /\ stored[k].backend = "arc" => Fresh(k)
        /\ Kept(k)

\* On each backend a value was stored whose key had been stored before with
\* another value; on VecLookup a value of another key was stored before both.
C10_Witness ==
    \A b \in {"vec", "arc"} :
        \E k \in 1..Len(stored) :
            /\ stored[k].backend = b
            /\ SameKey(k) # {}
            /\ stored[FirstStored(k)].data # stored[k].data
            /\ b = "vec" => \E j \in Earlier(k) : j < FirstStored(k)

----------------------------------------------------------------------------
(* Properties of the project update *)

\* The tasks of worker i's outcome.
Added(i) == {workers[i].add[k] : k \in 1..Len(workers[i].add)}

\* The project's record is new, or older than the forge's project.
UpdatesComponents ==
    \/ find(storage.projects, call.gl.id) = NONE
    \/ lookup(storage.projects, find(storage.projects, call.gl.id))[1].cim_refreshed_at
         < call.gl.updated_at

Open(level) == level \in {"enabled", "private"}

\* C11: when a project update enqueues discovery tasks (its record is new or
\* older than the forge's project), DiscoverMergeRequests is in its outcome
\* iff merge_requests_access_level is enabled or private,
\* DiscoverPipelineSchedules and DiscoverPipelines iff builds_access_level is,
\* DiscoverEnvironments and DiscoverDeployments iff environments_access_level
\* is; a collection whose level is disabled is never discovered.
C11_AccessLevelGating ==
    workers[0].pc = "store" =>
        LET gl == call.gl
            p == gl.id
            mr == Open(gl.merge_requests_access_level)
            builds == Open(gl.builds_access_level)
            envs == Open(gl.environments_access_level)
        IN /\ UpdatesComponents =>
                /\ DiscoverMergeRequestsTask(p) \in Added(0) <=> mr
                /\ DiscoverPipelineSchedulesTask(p) \in Added(0) <=> builds
                /\ DiscoverPipelinesTask(p) \in Added(0) <=> builds
                /\ DiscoverEnvironmentsTask(p) \in Added(0) <=> envs
                /\ DiscoverDeploymentsTask(p) \in Added(0) <=> envs
           /\ ~mr => DiscoverMergeRequestsTask(p) \notin Added(0)
           /\ ~builds => Added(0) \cap {DiscoverPipelineSchedulesTask(p),
                                        DiscoverPipelinesTask(p)} = {}
           /\ ~envs => Added(0) \cap {DiscoverEnvironmentsTask(p),
                                      DiscoverDeploymentsTask(p)} = {}

\* A stale record of a project with private merge requests, disabled builds
\* and enabled environments has been updated.
C11_Witness ==
    /\ call.fn = "update_project_impl"
    /\ workers[0].pc = "send"
    /\ storage.projects = <<[forge_id |-> ProjectId, instance |-> instance_index,
                             cim_refreshed_at |-> Now]>>
    /\ call.gl.merge_requests_access_level = "private"
    /\ call.gl.builds_access_level = "disabled"
    /\ call.gl.environments_access_level = "enabled"
    /\ call.gl.updated_at = Now
    /\ Added(0) = {DiscoverMergeRequestsTask(ProjectId), DiscoverEnvironmentsTask(ProjectId),
                   DiscoverDeploymentsTask(ProjectId)}

\* The project that project p is forked from, or NONE.
ForkParent(p) == GlProject(p).forked_from_project

\* The forge ids of the Project records, in the order of the store.
StoredProjects == [k \in 1..Len(storage.projects) |-> storage.projects[k].forge_id]

\* How many Project records the store holds for project p.
Records(p) == Cardinality({k \in 1..Len(StoredProjects) : StoredProjects[k] = p})

\* The projects of the fork chain that starts at project p (at most three).
Chain(p) ==
    {p} \cup {q \in {ForkParent(p)} : q # NONE}
        \cup {r \in {IF ForkParent(p) = NONE THEN NONE ELSE ForkParent(ForkParent(p))} :
                r # NONE}

----------------------------------------------------------------------------
(* Properties of the merge request update *)

\* The state a wire state is to be stored as.
StoredAs(gms) ==
    IF gms = "closed" THEN "Closed" ELSE IF gms = "merged" THEN "Merged" ELSE "Open"

\* The index of the observed merge request in the store st, or NONE.
Observed(st) == find(st.merge_requests, call.gl.id)

\* C13: update_merge_request stores the wire states opened, reopened and
\* locked as Open, closed as Closed and merged as Merged; when the merge
\* request is already stored, storing it again overwrites the state of the
\* existing record and changes neither the number of MergeRequest records nor
\* the record's index.
C13_StateMappedInPlace ==
    [][(call.fn = "update_merge_request" /\ workers[0].pc = "store"
        /\ workers'[0].pc = "send")
       => /\ Observed(storage') # NONE
          /\ storage'.merge_requests[Observed(storage') + 1].state = StoredAs(call.gl.state)
          /\ Observed(storage) # NONE =>
                /\ Len(storage'.merge_requests) = Len(storage.merge_requests)
                /\ Observed(storage') = Observed(storage)]_vars

\* A merge request stored as Open from the wire state locked, behind another
\* merge request, has been observed again as merged and is stored as Merged.
C13_Witness ==
    /\ call.fn = "update_merge_request"
    /\ call.seen = 3
    /\ call.gl.state = "merged"
    /\ workers[0].pc = "send"
    /\ Len(storage.merge_requests) = 2
    /\ Observed(storage) = 1
    /\ storage.merge_requests[2].state = "Merged"

----------------------------------------------------------------------------
(* Properties of the error classification *)

\* C14: a forge call that fails at the network level returns Connection, a
\* 401 or 403 response returns Auth, a 5xx response returns Connection, and
\* no other response class is reported as Auth or Connection.
C14_ErrorClasses ==
    (call.fn = "forge_error" /\ ret # <<>>) =>
        LET err == call.err IN
        /\ err.kind = "Client" => ret[1] = "Connection"
        /\ (err.kind = "GitlabService" /\ err.status \in {401, 403}) => ret[1] = "Auth"
        /\ (err.kind = "GitlabService" /\ err.status \in 500..599) => ret[1] = "Connection"
        /\ (err.kind = "GitlabService" /\ err.status \notin {401, 403} \cup 500..599)
              => ret[1] \notin {"Auth", "Connection"}

----------------------------------------------------------------------------
(* Properties of the dispatch *)

\* The variants of ForgeTask that GitlabForge::run_task_async has no arm for.
Unimplemented ==
    {"DiscoverEnvironments", "UpdateEnvironment", "DiscoverDeployments",
     "UpdateDeployments", "UpdateJobArtifacts", "FetchJobArtifact"}

\* C15: run_task on a task variant that the adapter does not implement
\* returns the error Unhandled, leaves the store unchanged and enqueues
\* nothing.
C15_UnimplementedIsUnhandled ==
    [][\A i \in DOMAIN workers :
          (/\ workers[i].task.kind \in Unimplemented
           /\ workers[i].pc = "start"
           /\ i \in DOMAIN workers'
           /\ workers'[i].pc # "start")
          => /\ workers'[i].err = "Unhandled"
             /\ workers'[i].add = <<>>
             /\ storage' = storage
             /\ queue' = queue]_vars

----------------------------------------------------------------------------
(* Properties of the JSON persistence *)

\* C16: VecStore::load of the directory written by VecStore::store(S)
\* succeeds and yields a store equal to S record for record and index for
\* index, whatever the ArtifactKind of its job artifacts.
C16_StoreRoundTrip ==
    (call.fn = "VecStore" /\ ret # <<>> /\ ~call.tampered) =>
        /\ ret[1].ok
        /\ ret[1].value = storage

\* The references of the files that load reads whose index is not below the
\* count of the type they refer to: the type and index of the record, and the
\* reference.
Dangling ==
    {d \in [type : DOMAIN disk.files, i : 0..0, target : DOMAIN disk.files, idx : 0..MaxIndex] :
        /\ d.i < disk.index[1].counts[d.type]
        /\ \E k \in 1..Len(References(d.type, disk.files[d.type][d.i + 1])) :
              References(d.type, disk.files[d.type][d.i + 1])[k]
                  = [target |-> d.target, idx |-> d.idx]
        /\ d.idx >= disk.index[1].counts[d.target]}

\* C17: when VecStore::load has read every record, it succeeds only if every
\* reference that is present has an index strictly less than the count of the
\* type it refers to; if a record holds an index >= that count, load fails
\* with MissingIndex naming that type and index and the type and index of the
\* record that holds it.
C17_ReferencesValidated ==
    (/\ call.fn = "VecStore"
     /\ ret # <<>>
     /\ ret[1].ok \/ ret[1].error.kind = "MissingIndex") =>
        /\ ret[1].ok => Dangling = {}
        /\ Dangling # {} =>
              /\ ~ret[1].ok
              /\ \E d \in Dangling :
                    ret[1].error = MissingIndex(typename(d.target), d.idx,
                                                typename(d.type), d.i)

----------------------------------------------------------------------------
(* Migration *)

\* The records of type in the sink are those of the source: the type has a
\* Migration, every source index has its own sink index, and the record
\* there is the source record with its references translated.
Migrated(type, source, st) ==
    /\ Len(st.sink[type]) = Len(source[type])
    /\ \E k \in 1..Len(Migrations) :
          /\ Migrations[k].type = type
          /\ \A i \in 0..(Len(source[type]) - 1) :
                /\ i \in DOMAIN st.maps[type]
                /\ \A j \in DOMAIN st.maps[type] : st.maps[type][j] = st.maps[type][i] => j = i
                /\ lookup(st.sink[type], st.maps[type][i])
                       = <<new_data(Migrations[k], source[type][i + 1], st.maps).value>>

\* C18: migration identity. migrate_object_store of a source store whose
\* references all have their targets into an empty sink succeeds, and then
\* every type (job and job artifact included) has as many records in the
\* sink as in the source, each equal to its source record once the
\* references are translated through the index map.
C18_MigrationIdentity ==
    (call.fn = "migrate_object_store" /\ ret # <<>>) =>
        /\ ret[1].ok
        /\ \A type \in DOMAIN EmptyStore : Migrated(type, call.source, ret[1].value)

----------------------------------------------------------------------------
(* Blob store *)

\* The step is the operation op of the blob store.
Operates(op) == call.fn = "Filesystem" /\ ret' # <<>> /\ ret'[1].op = op

\* The bytes of the file of the reference blob, <<data>>, or <<>> without file
Stored(files, blob) ==
    IF \E f \in files : f.path = path_for(call, blob)
    THEN <<(CHOOSE f \in files : f.path = path_for(call, blob)).data>>
    ELSE <<>>

\* C19: blob idempotence and verification. A successful store of the bytes b
\* returns the reference of b, the same each time, and leaves one file
\* holding b at its path and every other file alone, so that a second store
\* changes nothing; fetching the returned reference then gives b and
\* verifying it succeeds. Verifying a reference whose file holds other bytes
\* than the referenced ones returns Invalid with the reference of the bytes
\* found, which differs from the requested one.
C19_BlobIdempotence ==
    [][/\ (Operates("store") /\ ret'[1].result.ok) =>
            LET b == ret'[1].arg
                r == ret'[1].result.value
            IN  /\ r = for_blob(b, call.algo)
                /\ {f \in disk' : f.path = path_for(call, r)}
                       = {[path |-> path_for(call, r), data |-> b]}
                /\ {f \in disk' : f.path # path_for(call, r)}
                       = {f \in disk : f.path # path_for(call, r)}
                /\ Stored(disk, r) = <<b>> => disk' = disk
                /\ blob_fetch(call, disk', r, NoFault).result = Success(b)
                /\ blob_verify(call, disk', r, NoFault).result = Success(<<>>)
       /\ (Operates("verify") /\ ret'[1].fault = NoFault) =>
            \A b \in Payloads, c \in Payloads :
                (/\ ret'[1].arg = for_blob(b, call.algo)
                 /\ Stored(disk, ret'[1].arg) = <<c>>
                 /\ c # b) =>
                    /\ ret'[1].result
                           = Failure([kind |-> "Invalid", actual |-> for_blob(c, call.algo)])
                    /\ for_blob(c, call.algo) # ret'[1].arg]_vars

\* A verification has found other bytes than the referenced ones in a file
\* that something else than the store changed after a successful store.
C19_Witness ==
    /\ call.fn = "Filesystem"
    /\ ret # <<>>
    /\ ret[1].op = "verify"
    /\ ~ret[1].result.ok
    /\ ret[1].result.error.kind = "Invalid"
    /\ \E b \in Payloads : ret[1].arg = for_blob(b, call.algo) /\ Stored(disk, ret[1].arg) # <<b>>

\* C20: error outcomes of the blob store. Without I/O failure, fetch and
\* erase of a reference without file fail with NotFound and leave the files
\* alone; after a successful erase the reference is not contained and its
\* fetch fails with NotFound, and a file comes to be only through a store
\* of the bytes it is the path of. A failed operation reports Auth for a
\* permission-denied I/O failure, Other for any other I/O failure, and
\* NotFound only for a missing file.
C20_BlobErrors ==
    [][/\ ((Operates("fetch") \/ Operates("erase"))
              /\ ret'[1].fault = NoFault /\ Stored(disk, ret'[1].arg) = <<>>) =>
            /\ ret'[1].result = Failure("NotFound")
            /\ disk' = disk
       /\ (Operates("erase") /\ ret'[1].result.ok) =>
            /\ blob_contains(call, disk', ret'[1].arg).result = Success(FALSE)
            /\ blob_fetch(call, disk', ret'[1].arg, NoFault).result = Failure("NotFound")
       /\ call.fn = "Filesystem" =>
            \A f \in disk' :
                (\A g \in disk : g.path # f.path) =>
                    /\ Operates("store")
                    /\ path_for(call, for_blob(ret'[1].arg, call.algo)) = f.path
       /\ ((Operates("store") \/ Operates("fetch") \/ Operates("erase"))
              /\ ~ret'[1].result.ok) =>
            \/ /\ ret'[1].result.error = "NotFound"
               /\ ret'[1].op # "store"
               /\ Stored(disk, ret'[1].arg) = <<>>
            \/ /\ ret'[1].result.error = "Auth"
               /\ ret'[1].fault.kind = "PermissionDenied"
            \/ /\ ret'[1].result.error = "Other"
               /\ ret'[1].fault.kind = "StorageFull"
       /\ ((Operates("store") \/ Operates("fetch") \/ Operates("erase"))
              /\ ret'[1].fault.step \in {"create_dir_all", "create", "open", "remove_file"}) =>
            ~ret'[1].result.ok]_vars

\* An erase of a reference without file has failed with NotFound in a store
\* that holds other files.
C20_Witness ==
    /\ call.fn = "Filesystem"
    /\ ret # <<>>
    /\ ret[1].op = "erase"
    /\ ret[1].fault = NoFault
    /\ ret[1].result = Failure("NotFound")
    /\ disk # {}

----------------------------------------------------------------------------
(* Sharding *)

\* The sum of the breaks, as a number
Sum(breaks) == breaks[1] + breaks[2] + breaks[3]

\* C21: sharding bijection. For every sharding of one to three positive
\* breaks and every hash, shard_str returns components that concatenate to
\* the hash: when the hash is at least as long as the sum of the breaks,
\* every break's component has the break's length and the rest follows;
\* when it is shorter, the first component is the hash and the others are
\* empty.
C21_ShardingBijection ==
    (call.fn = "shard_str" /\ ret # <<>>) =>
        LET shards == ret[1]
            breaks == call.breaks
        IN  /\ shards # panic
            /\ shards[1] \o shards[2] \o shards[3] \o shards[4] = call.s
            /\ Len(call.s) >= Sum(breaks) =>
                   \A k \in 1..MAX_BREAKS : breaks[k] > 0 => Len(shards[k]) = breaks[k]
            /\ Len(call.s) < Sum(breaks) =>
                   shards = <<call.s, <<>>, <<>>, <<>>>>

\* C22: Filesystem::open accepts a configuration only if its algorithm is
\* sha256 or sha512 and its sharding is a list of one to three positive
\* integers: another algorithm fails with InvalidContentAlgorithm, and with
\* a known algorithm a sharding that is empty, longer than three or holds a
\* 0 fails with InvalidSharding; the sharding of an accepted configuration
\* gives back its list by to_vec.
C22_OpenValidates ==
    (call.fn = "open" /\ call.file # <<>> /\ ret # <<>>) =>
        LET conf == call.file[1]
            valid == /\ Len(conf.sharding) \in 1..MAX_BREAKS
                     /\ \A k \in 1..Len(conf.sharding) : conf.sharding[k] > 0
        IN  IF conf.algorithm \notin {"sha256", "sha512"}
            THEN ~ret[1].ok /\ ret[1].error.kind = "InvalidContentAlgorithm"
            ELSE IF ~valid
            THEN ~ret[1].ok /\ ret[1].error.kind = "InvalidSharding"
            ELSE /\ ret[1].ok
                 /\ to_vec(ret[1].value.sharding) = conf.sharding

----------------------------------------------------------------------------
(* ArtifactKind *)

\* C23: ArtifactKind round trip. Parsing the text of a kind gives the kind
\* back, whatever its variant, path or name; and the text custom(<name>)
\* parses to Custom of that name, archive_file(<path>) to ArchiveFile of
\* that path.
C23_KindRoundTrip ==
    /\ (call.fn = "as_str" /\ ret # <<>>) => ret[1] = <<call.kind>>
    /\ (call.fn = "parse" /\ ret # <<>>) =>
           ret[1] = <<Kind(IF call.literal = Literal.custom THEN "Custom" ELSE "ArchiveFile",
                           call.name)>>

----------------------------------------------------------------------------
(* Builders *)

\* C24: builder completeness. The required fields of Pipeline are project,
\* sha, source, status, forge_id, url, created_at and updated_at. For every
\* entity, a build with every required field set but one fails with
\* UninitializedField naming that field, and a build with every required
\* field set succeeds with every required field as set and every other field
\* at the default it is declared with.
C24_BuilderCompleteness ==
    /\ Required("Pipeline") = {"project", "sha", "source", "status", "forge_id", "url",
                               "created_at", "updated_at"}
    /\ (call.fn = "build" /\ ret # <<>>) =>
          LET fields == Fields[call.entity]
              missing == Required(call.entity) \ call.set
          IN  /\ \A f \in missing :
                    missing = {f} =>
                        ret[1] = Failure([kind |-> "UninitializedField", field |-> f])
              /\ missing = {} =>
                    /\ ret[1].ok
                    /\ \A k \in 1..Len(fields) :
                          IF fields[k][1] \in Required(call.entity)
                          THEN ret[1].value[k] = "set"
                          ELSE ret[1].value[k] \in {"Default::default()", "Utc::now()",
                                                    "ArtifactState::Unknown",
                                                    "ArtifactExpiration::Unknown"}

\* A Pipeline was built with every required field but url, which is not the
\* first of them.
C24_Witness ==
    /\ call.fn = "build"
    /\ call.entity = "Pipeline"
    /\ Required("Pipeline") \ call.set = {"url"}
    /\ ret = <<Failure([kind |-> "UninitializedField", field |-> "url"])>>

----------------------------------------------------------------------------
(* Instances *)

\* The indices of the Instances of forge at url
InstancesOf(instances, forge, url) ==
    {k \in 1..Len(instances) : instances[k].forge = forge /\ instances[k].url = url}

\* I3: at most one Instance per forge and url
I3(instances) ==
    \A j, k \in 1..Len(instances) :
        (instances[j].forge = instances[k].forge /\ instances[j].url = instances[k].url)
            => j = k

\* C25: instance identity. Every construction of the adapter keeps I3. On a
\* store that holds an Instance of "gitlab" at the url, the adapter takes the
\* index of that Instance and the store stays as it is; on any other store
\* exactly one Instance is written, the one of "gitlab" at the url, and the
\* adapter takes its index.
C25_InstanceIdentity ==
    [][call.fn = "GitlabForge" =>
          LET before == storage.instances
              after == storage'.instances
              url == ret'[1].url
              idx == ret'[1].instance_idx
          IN  /\ I3(after)
              /\ InstancesOf(after, "gitlab", url) = {idx + 1}
              /\ IF InstancesOf(before, "gitlab", url) # {}
                 THEN after = before /\ InstancesOf(before, "gitlab", url) = {idx + 1}
                 ELSE /\ Len(after) \in {Len(before), Len(before) + 1}
                      /\ {k \in 1..Len(after) :
                              k > Len(before) \/ after[k] # before[k]} = {idx + 1}]_vars

\* Two adapters have been constructed for one url on a store that held
\* Instances before, and the second took the Instance of the first.
C25_Witness ==
    /\ call.fn = "GitlabForge"
    /\ call.constructions = 2
    /\ Len(storage.instances) = 3
    /\ ret # <<>>
    /\ ret[1].instance_idx = 2
    /\ storage.instances[3].forge = "gitlab"
    /\ storage.instances[3].url = "c"

----------------------------------------------------------------------------
(* C26: termination *)

\* The exploration bound on spawned workers is met: the run is cut short.
CutShort == count = explore.count

C26_TerminationSeeded == (queue # <<>> \/ count > 0) => <>(pc = "done" \/ CutShort)

\* One worker at a time, every seeded run ends within the bound.
C26_TerminationSequential ==
    (explore.in_flight = 1 /\ (queue # <<>> \/ count > 0)) => <>(pc = "done")

\* A task is in its own outcome only when one of the references it needs was
\* not in the store when it looked.
C26_DeferredWhileMissing ==
    [][\A i \in DOMAIN workers :
          (/\ i \in DOMAIN workers'
           /\ workers[i].pc \notin {"send", "finished"}
           /\ workers'[i].pc = "send"
           /\ \E k \in 1..Len(workers'[i].add) : workers'[i].add[k] = workers[i].task)
          => \/ workers'[i].user_idx = NONE
             \/ workers'[i].project_idx = NONE
             \/ /\ workers[i].task.kind = "UpdateMergeRequest"
                /\ workers'[i].other_idx = NONE]_vars

----------------------------------------------------------------------------
(* C27: freshness gating *)

\* The tasks that discover the collections of the forge's project gl.
SubDiscoveries(gl) ==
    {DiscoverMergeRequestsTask(gl.id), DiscoverPipelineSchedulesTask(gl.id),
     DiscoverPipelinesTask(gl.id), DiscoverEnvironmentsTask(gl.id),
     DiscoverDeploymentsTask(gl.id)}

\* The sub-discovery tasks the access levels of gl allow.
AllowedDiscoveries(gl) ==
    {t \in SubDiscoveries(gl) :
        \/ t.kind = "DiscoverMergeRequests" /\ Open(gl.merge_requests_access_level)
        \/ t.kind \in {"DiscoverPipelineSchedules", "DiscoverPipelines"}
             /\ Open(gl.builds_access_level)
        \/ t.kind \in {"DiscoverEnvironments", "DiscoverDeployments"}
             /\ Open(gl.environments_access_level)}

\* C27: when a project update finds a record whose refresh time is not older
\* than the forge's updated_at, its outcome holds no sub-discovery task; when
\* the project is new or its record is older, the outcome holds the
\* sub-discovery tasks the access levels allow; either way the record is
\* stored with the refreshed fields, once.
C27_FreshnessGating ==
    /\ workers[0].pc = "store" =>
          Added(0) \cap SubDiscoveries(call.gl) =
              IF UpdatesComponents THEN AllowedDiscoveries(call.gl) ELSE {}
    /\ workers[0].pc = "send" =>
          /\ find(storage.projects, call.gl.id) # NONE
          /\ lookup(storage.projects, find(storage.projects, call.gl.id)) =
                <<[forge_id |-> call.gl.id, instance |-> instance_index,
                   cim_refreshed_at |-> Now]>>
          /\ Len(storage.projects) = 1

\* A record as old as the forge's project, all of whose collections are
\* enabled, was found and the outcome is empty.
C27_Witness ==
    /\ call.fn = "update_project_impl"
    /\ workers[0].pc = "store"
    /\ storage.projects # <<>>
    /\ storage.projects[1].cim_refreshed_at = call.gl.updated_at
    /\ AllowedDiscoveries(call.gl) = SubDiscoveries(call.gl)
    /\ workers[0].add = <<>>

----------------------------------------------------------------------------
(* C28: crash consistency of VecStore::store *)

\* The directory holds every data file its index counts, each one whole.
IndexedFilesPresent ==
    /\ disk.index[1] # EmptyFile
    /\ \A t \in DOMAIN disk.files :
          /\ disk.index[1].counts[t] <= Len(disk.files[t])
          /\ \A i \in 1..disk.index[1].counts[t] : disk.files[t][i] # EmptyFile

\* The stores that were stored to the directory: the earlier one, and the
\* one being written once its index is written.
ActuallyStored ==
    {call.earlier[k] : k \in 1..Len(call.earlier)}
        \cup (IF call.written = Len(Writes(storage)) THEN {storage} ELSE {})

\* C28: VecStore::store writes every data file before vecindex.json; when
\* the process crashes at any step of a store, into an empty directory or
\* over an earlier store, the directory has no index file, or it has an index
\* file and all the data files it counts and loads to a store that was
\* actually stored.
C28_CrashConsistency ==
    (call.crashed /\ ret # <<>>) =>
        \/ disk.index = <<>>
        \/ /\ IndexedFilesPresent
           /\ ret[1].ok
           /\ ret[1].value \in ActuallyStored

\* The data files are written before the index.
C28_IndexLast ==
    [][(StoreWrite /\ disk'.index # disk.index) =>
          \A t \in DOMAIN disk.files : \A i \in 1..Len(storage[t]) :
              disk.files[t][i] = convert_to_json(t, storage[t][i])]_vars

\* A store that runs to its end is loaded as it was stored, and the writes
\* add up to VecStore::store.
C28_StoredWhenComplete ==
    (~call.crashed /\ call.written = Len(Writes(storage))) =>
        /\ load(disk) = Success(storage)
        /\ \E d \in {EmptyDir} \cup {VecStore_store(EmptyDir, e) : e \in CrashStores} :
              disk = VecStore_store(d, storage)

\* A crash of a store into an empty directory, at any step before
\* vecindex.json is created, leaves no index file.
C28_EmptyDirNoIndex ==
    (call.crashed /\ call.earlier = <<>> /\ call.written <= Len(DataWrites(storage, 1)))
        => disk.index = <<>>

----------------------------------------------------------------------------
(* C29: lock discipline *)

\* Worker i holds a read guard.
HoldsRead(i) == workers[i].guards > 0

\* Some worker has not returned and no worker can make a step.
Deadlocked ==
    /\ \E i \in LockWorkers : Doing(i) # "return"
    /\ \A i \in LockWorkers :
          \/ Doing(i) = "return"
          \/ workers[i].wait = "read" /\ ~CanRead
          \/ workers[i].wait = "write" /\ ~CanWrite

\* C29: a worker never holds a read guard of the store while it produces a
\* follow-up task, while it acquires another guard of the lock, or across an
\* await; the write guard is held for one store(value) call only; no set of
\* concurrent workers deadlocks on the lock.
C29_LockDiscipline ==
    /\ \A i \in LockWorkers :
          /\ HoldsRead(i) => Doing(i) \notin {"add_task", "storage", "storage_mut", "await"}
          /\ workers[i].writing => Doing(i) \in {"store", "drop_mut"}
    /\ ~Deadlocked

\* No guard is held across an await or at the return, and the write guard is
\* held for one store(value) call only.
C29_NoGuardAcrossAwait ==
    \A i \in LockWorkers :
        /\ Doing(i) \in {"await", "return"} => ~HoldsRead(i) /\ ~workers[i].writing
        /\ workers[i].writing => Doing(i) \in {"store", "drop_mut"} /\ ~HoldsRead(i)

\* Built for edition 2024, no follow-up task is produced under a read guard.
C29_TasksOutsideGuard2024 ==
    call.edition = 2024 => \A i \in LockWorkers : HoldsRead(i) => Doing(i) # "add_task"

\* Where a waiting writer does not block readers, the workers do not deadlock.
C29_NoDeadlockReadersFirst == ~call.writers_first => ~Deadlocked

\* A second guard is never asked for under a read guard.
C29_NoNestedGuard ==
    \A i \in LockWorkers : HoldsRead(i) => Doing(i) \notin {"storage", "storage_mut"}

\* The workers never deadlock.
C29_NoDeadlock == ~Deadlocked

----------------------------------------------------------------------------
(* C30: the pipeline pass of the migration *)

RECURSIVE Ancestor(_, _, _, _)
\* Whether a is reached from i in at most n steps along parent_pipeline.
Ancestor(pipelines, i, a, n) ==
    /\ n > 0
    /\ pipelines[i + 1].parent_pipeline # NONE
    /\ \/ pipelines[i + 1].parent_pipeline = a
       \/ Ancestor(pipelines, pipelines[i + 1].parent_pipeline, a, n - 1)

\* No pipeline is its own ancestor.
AcyclicParents(pipelines) ==
    \A i \in 0..(Len(pipelines) - 1) : ~Ancestor(pipelines, i, i, Len(pipelines))

\* C30: for every acyclic parent relation and every order of the source
\* indices, a child before its parent included, the pipeline pass stores each
\* source pipeline in the sink exactly once with its parent reference
\* translated (a pipeline whose parent is not translated yet is deferred to a
\* later pass); on a parent cycle the pass stops.
C30_PipelinePass ==
    (call.fn \in {"migrate_object_store/pipelines", "PipelineMigration::migrate"}
        /\ ret # <<>> /\ AcyclicParents(call.source.pipelines)) =>
        /\ ret[1].ok
        /\ Migrated("pipelines", call.source, ret[1].value)

\* The pass returns DuplicateSourceIndex for the first record it inspects:
\* only a source without pipelines passes.
C30_FirstEntryFails ==
    ret # <<>> =>
        IF call.fn = "PipelineMigration::migrate"
        THEN IF call.source.pipelines = <<>> THEN ret[1].ok
             ELSE ret[1] = Failure(MigrationError("DuplicateSourceIndex", "pipelines", 0))
        ELSE ret[1] = Failure(MigrationError("DuplicateSourceIndex", "instances", 0))

----------------------------------------------------------------------------
(* C31: DuplicateSourceIndex *)

\* C31: recording a source index in a type's index map fails with
\* DuplicateSourceIndex exactly when the index is in the map already, and
\* succeeds when it is not; a migration that starts on a new map succeeds,
\* and then the map translates every source index to the index at which
\* sink.store put its record.
C31_DuplicateSourceIndex ==
    /\ (call.fn = "IndexMap::entry" /\ ret # <<>>) =>
          IF call.key \in DOMAIN call.imap
          THEN ret[1] = Failure(MigrationError("DuplicateSourceIndex", "instances", call.key))
          ELSE ret[1].ok
    /\ (call.fn = "InstanceMigration::migrate" /\ ret # <<>> /\ DOMAIN call.imap = {}) =>
          /\ ret[1].ok
          /\ \A i \in 0..(Len(call.source.instances) - 1) :
                /\ i \in DOMAIN ret[1].value.maps.instances
                /\ ret[1].value.maps.instances[i] =
                      find(ret[1].value.sink.instances, call.source.instances[i + 1].unique_id)

\* What the code does: entry succeeds exactly for an index that is in the map.
C31_EntryOccupied ==
    (call.fn = "IndexMap::entry" /\ ret # <<>>) =>
        IF call.key \in DOMAIN call.imap
        THEN ret[1].ok
        ELSE ret[1] = Failure(MigrationError("DuplicateSourceIndex", "instances", call.key))

\* What the code does: the migration succeeds exactly when every source index
\* is in the map beforehand, and it leaves the map as it was.
C31_MapUnchanged ==
    (call.fn = "InstanceMigration::migrate" /\ ret # <<>>) =>
        /\ ret[1].ok <=> \A i \in 0..(Len(call.source.instances) - 1) : i \in DOMAIN call.imap
        /\ ret[1].ok => ret[1].value.maps.instances = call.imap

----------------------------------------------------------------------------
(* C32: reconciliation frame *)

\* Worker i stores the clone of a record it found.
StoresFound(i) == Reconcile(i) /\ workers[i].pc = "store" /\ workers[i].idx # NONE

\* The record worker i found, before and after the step.
FoundBefore(i) == storage[TypeOf(workers[i].task)][workers[i].idx + 1]
FoundAfter(i) == storage'[TypeOf(workers[i].task)][workers[i].idx + 1]

\* C32: an Update* task that finds an existing record mutates it in place:
\* the record keeps its index, its identity key and its first fetch time, its
\* last refresh time does not decrease, the number of records of every type
\* stays, and no other record is modified; no task ever deletes a record.
C32_ReconciliationFrame ==
    [][/\ \A i \in {0, 1} : StoresFound(i) =>
             /\ \A type \in DOMAIN storage : Len(storage'[type]) = Len(storage[type])
             /\ FoundAfter(i).forge_id = FoundBefore(i).forge_id
             /\ FoundAfter(i).cim_fetched_at = FoundBefore(i).cim_fetched_at
             /\ FoundAfter(i).cim_refreshed_at >= FoundBefore(i).cim_refreshed_at
             /\ \A type \in DOMAIN storage : \A k \in 1..Len(storage[type]) :
                   (type # TypeOf(workers[i].task) \/ k # workers[i].idx + 1)
                       => storage'[type][k] = storage[type][k]
       /\ \A type \in DOMAIN storage : Len(storage'[type]) >= Len(storage[type])]_vars

\* The same without the refresh time.
C32_InPlace ==
    [][/\ \A i \in {0, 1} : StoresFound(i) =>
             /\ \A type \in DOMAIN storage : Len(storage'[type]) = Len(storage[type])
             /\ FoundAfter(i).forge_id = FoundBefore(i).forge_id
             /\ FoundAfter(i).cim_fetched_at = FoundBefore(i).cim_fetched_at
             /\ \A type \in DOMAIN storage : \A k \in 1..Len(storage[type]) :
                   (type # TypeOf(workers[i].task) \/ k # workers[i].idx + 1)
                       => storage'[type][k] = storage[type][k]
       /\ \A type \in DOMAIN storage : Len(storage'[type]) >= Len(storage[type])]_vars

----------------------------------------------------------------------------
(* C33: the first fetch time under concurrent workers *)

\* C33: the first fetch time of an entity never changes once the entity has
\* been stored, also when two workers that both found nothing store it one
\* after the other.
C33_FirstFetchedKept ==
    [][\A type \in {"users", "runners"} : \A k \in 1..Len(storage[type]) :
          storage'[type][k].cim_fetched_at = storage[type][k].cim_fetched_at]_vars

\* The first fetch time changes only by the store of a worker that had found
\* nothing.
C33_ChangedByNewOnly ==
    [][\A i \in {0, 1} : (Reconcile(i) /\ workers[i].pc = "store" /\ workers[i].idx # NONE) =>
          \A type \in {"users", "runners"} : \A k \in 1..Len(storage[type]) :
              storage'[type][k].cim_fetched_at = storage[type][k].cim_fetched_at]_vars

----------------------------------------------------------------------------
(* C34: the task a deferring update_merge_request enqueues for itself        *)

\* update_merge_request has returned without an error and without all three
\* of the author, the target project and the source project.
Deferred ==
    /\ workers[0].pc = "send"
    /\ workers[0].err = ""
    /\ (workers[0].user_idx = NONE \/ workers[0].project_idx = NONE
        \/ workers[0].other_idx = NONE)

\* The task that update_merge_request pushed last.
LastAdded == workers[0].add[Len(workers[0].add)]

\* C34: when update_merge_request defers, the task it enqueues for itself is
\* the task it was given: the same project and the same number of the merge
\* request within the project.
C34_DeferSameTask == Deferred => LastAdded = call.task

\* When it defers, the task it enqueues for itself is an UpdateMergeRequest
\* of the same project that carries the id of the merge request within the
\* instance.
C34_DeferSameProject ==
    Deferred => LastAdded = UpdateMergeRequestTask(call.task.project, call.gl.id)

\* When the two numbers of the merge request agree, the task enqueued is the
\* task given.
C34_DeferSameWhenIdsAgree ==
    Deferred /\ call.gl.id = call.gl.iid => LastAdded = call.task

\* It goes on to the pipelines of the merge request with the number within
\* the project.
C34_PipelinesByIid ==
    workers[0].pc = "send" /\ workers[0].err = "" /\ ~Deferred
        => LastAdded = DiscoverMergeRequestPipelinesTask(call.task.project, call.task.id)

----------------------------------------------------------------------------
(* C35: quiescence when a dependency fails on every attempt                  *)

\* C35: the run exits also when the task that would store a missing record
\* fails on every attempt: the task deferred on that record is queued again
\* only finitely often.
C35_Quiescence == <>(pc = "done")

\* The run exits when no task fails on every attempt.
C35_QuiescenceWhenServed == (call.gone = NoTask) => <>(pc = "done")

\* When UpdateUser{2} fails on every attempt, handle_tasks never returns.
C35_NeverExits == call.gone # NoTask => pc # "done"

\* When UpdateUser{2} fails on every attempt, the user is never stored.
C35_NeverStored == call.gone # NoTask => find(storage.users, 2) = NONE

\* A worker that returns without an error and without the record it stores
\* has queued its own task again.
C35_DefersItself ==
    \A i \in DOMAIN workers :
        workers[i].pc = "send" /\ workers[i].err = "" /\ workers[i].entry = <<>>
        /\ workers[i].task.kind \in {"UpdateJob", "UpdateMergeRequest", "UpdatePipelineSchedule"}
            => workers[i].add # <<>> /\ workers[i].add[Len(workers[i].add)] = workers[i].task

\* A handle is never named like one that is still held.
C35_HandleNamesSuffice == pc = "recv" /\ queue # <<>> => count \notin DOMAIN workers

----------------------------------------------------------------------------
(* C36: the paths of different blobs                                         *)

\* The path p is the path q or a directory on the way to q.
OnPath(p, q) == Len(p) <= Len(q) /\ SubSeq(q, 1, Len(p)) = p

\* C36: in every store that Filesystem::open or Filesystem::create accepts,
\* two references that differ in the algorithm or the hash have different
\* paths, and the path of neither is a directory on the path of the other.
C36_PathInjectivity ==
    \A a, b \in BlobReferences :
        a # b => ~OnPath(path_for(call, a), path_for(call, b))

\* The same for the stores with at least one break, those Filesystem::create
\* can make.
C36_InjectiveWithBreaks ==
    call.sharding # <<0, 0, 0>> => C36_PathInjectivity

\* The store gives back the bytes of blob for the reference of blob.
Fetches(files, blob) ==
    blob_fetch(call, files, for_blob(blob, call.algo), NoFault).result = Success(blob)

\* Storing one blob never overwrites another: a blob that is fetched with its
\* own bytes is so after every store.
C36_NoOverwrite ==
    [][\A blob \in Payloads : Fetches(disk, blob) => Fetches(disk', blob)]_vars

\* The same for the stores with at least one break.
C36_NoOverwriteWithBreaks ==
    [][call.sharding # <<0, 0, 0>> =>
          \A blob \in Payloads : Fetches(disk, blob) => Fetches(disk', blob)]_vars

\* Without a break every blob of the store is the one file named like the
\* algorithm.
C36_OneFileWithoutBreaks ==
    call.sharding = <<0, 0, 0>> =>
        \A a \in BlobReferences : path_for(call, a) = <<a.algo>>

----------------------------------------------------------------------------
(* C37: GitlabForge::new and the Instances already stored                    *)

\* The unique_ids of the Instances.
InstanceIds(instances) == {instances[k].unique_id : k \in 1..Len(instances)}

\* C37: GitlabForge::new never overwrites a record: every Instance stored
\* before is at its place unchanged afterwards, and an Instance it creates
\* has a unique_id that none of them has.
C37_NoOverwrite ==
    [][call.fn = "GitlabForge" =>
          LET before == storage.instances
              after == storage'.instances
          IN  /\ Len(after) >= Len(before)
              /\ \A k \in 1..Len(before) : after[k] = before[k]
              /\ \A k \in (Len(before) + 1)..Len(after) :
                     after[k].unique_id \notin InstanceIds(before)]_vars

\* The same on the stores where no Instance has the number of Instances as
\* its unique_id.
C37_NoOverwriteFreeId ==
    [][call.fn = "GitlabForge" /\ Len(storage.instances) \notin InstanceIds(storage.instances) =>
          LET before == storage.instances
              after == storage'.instances
          IN  /\ Len(after) >= Len(before)
              /\ \A k \in 1..Len(before) : after[k] = before[k]
              /\ \A k \in (Len(before) + 1)..Len(after) :
                     after[k].unique_id \notin InstanceIds(before)]_vars

\* No two Instances of the store have the same unique_id.
C37_UniqueIdsDiffer ==
    \A j, k \in 1..Len(storage.instances) :
        storage.instances[j].unique_id = storage.instances[k].unique_id => j = k

\* GitlabForge::new never makes the store shorter.
C37_NeverShorter ==
    [][call.fn = "GitlabForge" => Len(storage'.instances) >= Len(storage.instances)]_vars

----------------------------------------------------------------------------
(* C38: fetch and verify while the same bytes are stored                     *)

\* What the claim allows fetch or verify to return.
NotFoundOrComplete ==
    IF call.op = "fetch"
    THEN {Failure(BlobPersistenceError("Open", "NotFound")), Success(call.blob)}
    ELSE {Failure([kind |-> "Inner",
                   source |-> BlobPersistenceError("Open", "NotFound")]),
          Success(<<>>)}

\* C38: a fetch that runs while the same bytes are stored returns NotFound or
\* the complete payload, and a verify NotFound or success: never a payload
\* that is cut short or empty.
C38_NeverTorn == ret # <<>> => ret[1] \in NotFoundOrComplete

\* A fetch or verify that opens the file after store has returned gets the
\* complete payload.
C38_CompleteAfterStore ==
    ret # <<>> /\ workers[Reader].late =>
        ret[1] = IF call.op = "fetch" THEN Success(call.blob) ELSE Success(<<>>)

\* What fetch returns is the bytes stored up to some point.
C38_PrefixOnly ==
    ret # <<>> /\ call.op = "fetch" /\ ret[1].ok =>
        \E n \in 0..Len(call.blob) : ret[1].value = SubSeq(call.blob, 1, n)

\* Once store has returned the file holds the payload.
C38_StoredWhenDone ==
    workers[Storer].pc = "done" =>
        blob_fetch(call, disk, for_blob(call.blob, call.algo), NoFault).result
            = Success(call.blob)

====
